---- MODULE Spec2Model ----
(***************************************************************************)
(* Model of the market / order-book synchronisation engine of              *)
(* polymarket_shared: the catalog store (datastore/datastore.py), the      *)
(* update service and its two polling loops (datastore/marketupdate.py)    *)
(* and the stored-book reporter (datastore/showorderbook.py).              *)
(*                                                                         *)
(* Prices and sizes are integers in units of 0.01 (0.45 is 45).            *)
(***************************************************************************)
EXTENDS Integers, Sequences, FiniteSets, TLC

VARIABLES
    running,            \* MarketUpdateService.running
    events_thread,      \* MarketUpdateService.events_thread (0 is None)
    orderbook_thread,   \* MarketUpdateService.orderbook_thread (0 is None)
    markets,            \* MarketUpdateService.markets, the shared market list
    ev,                 \* the catalog-loop threads ever created, by number
    ob,                 \* the order-book-loop threads ever created, by number
    ctl,                \* where the caller of start() / stop() is
    svcLog,             \* the last line start() / stop() logged
    mkt,                \* table markets: number of rows per row content
    obk,                \* table orderbooks: the set of its rows
    evtab,              \* table events: the set of its rows
    nextId,             \* next AUTOINCREMENT id of table orderbooks
    clock,              \* CURRENT_TIMESTAMP, in seconds
    venue,              \* what the events endpoint currently serves
    bids,               \* reporter: raw bid side handed to print_orderbook
    asks,               \* reporter: raw ask side handed to print_orderbook
    out                 \* reporter: what print_orderbook printed (or "pending")

svcVars == <<running, events_thread, orderbook_thread, markets, ev, ob, ctl, svcLog>>
storeVars == <<mkt, obk, evtab, nextId, clock>>
bookVars == <<bids, asks, out>>
vars == <<svcVars, storeVars, venue, bookVars>>

(***************************************************************************)
(* Bounds                                                                  *)
(***************************************************************************)
MaxLen == 2          \* longest raw order-book side
MaxLimit == 2        \* largest display limit (--limit)
MaxStarts == 2       \* start() calls that launch threads
MaxSnapshots == 2    \* orderbooks ids ever assigned
MaxMarketRows == 2   \* rows of table markets
MaxClock == 2        \* last second of the wall clock

(***************************************************************************)
(* JSON values as the reporter meets them in a stored payload.             *)
(*   num  : a JSON number           str : a numeric string ("0.45")        *)
(*   bad  : a non-numeric string    none: null / key missing               *)
(***************************************************************************)
Num(n) == [t |-> "num", v |-> n]
Str(n) == [t |-> "str", v |-> n]
Bad == [t |-> "bad", v |-> 0]
None == [t |-> "none", v |-> 0]

\* float(x): [ok, v]; ok = FALSE stands for the TypeError / ValueError
Float(x) ==
    IF x.t \in {"num", "str"} THEN [ok |-> TRUE, v |-> x.v]
    ELSE [ok |-> FALSE, v |-> 0]

\* try: float(x)  except (TypeError, ValueError): x
FloatOrSelf(x) == IF Float(x).ok THEN Num(Float(x).v) ELSE x

\* _as_float: float(value), None when the conversion fails
AsFloat(x) == IF Float(x).ok THEN Num(Float(x).v) ELSE None

(***************************************************************************)
(* Raw order-book entries: a JSON array, a JSON object, or anything else.  *)
(***************************************************************************)
ListEntry(xs) == [k |-> "list", xs |-> xs, price |-> None, size |-> None]
DictEntry(p, s) == [k |-> "dict", xs |-> <<>>, price |-> p, size |-> s]
OtherEntry == [k |-> "other", xs |-> <<>>, price |-> None, size |-> None]

Pair(p, s) == ListEntry(<<Num(p), Num(s)>>)

\* the entry shapes format_book_side accepts
Accepted(e) == (e.k = "list" /\ Len(e.xs) >= 2) \/ e.k = "dict"

EntryPrice(e) == IF e.k = "list" THEN e.xs[1] ELSE e.price
EntrySize(e) == IF e.k = "list" THEN e.xs[2] ELSE e.size

\* an entry the spec calls well-formed: a [price, size] pair or a
\* {price, size} object whose two values are numeric
WellFormed(e) == Accepted(e) /\ Float(EntryPrice(e)).ok /\ Float(EntrySize(e)).ok

\* the loop body of format_book_side for one entry: <<>> when it is skipped
FormatEntry(e) ==
    IF Accepted(e)
    THEN << <<FloatOrSelf(EntryPrice(e)), FloatOrSelf(EntrySize(e))>> >>
    ELSE <<>>

RECURSIVE Formatted(_)
Formatted(side) ==
    IF side = <<>> THEN <<>>
    ELSE FormatEntry(Head(side)) \o Formatted(Tail(side))

\* Python's < between two sort keys raises TypeError unless both are floats
\* or both are strings
Comparable(a, b) == a.t = b.t /\ a.t \in {"num", "bad"}

KeyLess(a, b) == a.t = "num" /\ b.t = "num" /\ a.v < b.v

\* sorted() compares every element with a neighbour, so it raises as soon as
\* two rows with incomparable keys are present
SortRaises(rows) ==
    \E i, j \in 1..Len(rows) : i # j /\ ~Comparable(rows[i][1], rows[j][1])

\* stable insertion of row r into the sorted sequence s (equal keys keep
\* their input order, with reverse=True as well)
RECURSIVE Insert(_, _, _)
Insert(r, s, descending) ==
    IF s = <<>> THEN <<r>>
    ELSE IF (IF descending THEN KeyLess(Head(s)[1], r[1]) ELSE KeyLess(r[1], Head(s)[1]))
         THEN <<r>> \o s
         ELSE <<Head(s)>> \o Insert(r, Tail(s), descending)

RECURSIVE SortedRows(_, _)
SortedRows(rows, descending) ==
    IF rows = <<>> THEN <<>>
    ELSE Insert(rows[Len(rows)], SortedRows(SubSeq(rows, 1, Len(rows) - 1), descending), descending)

\* s[:limit]
Truncate(s, limit) ==
    IF limit >= 0 THEN SubSeq(s, 1, IF limit < Len(s) THEN limit ELSE Len(s))
    ELSE SubSeq(s, 1, IF Len(s) + limit > 0 THEN Len(s) + limit ELSE 0)

\* format_book_side cutting to the limit before it sorts
FormatBookSideCutFirst(side, limit, descending) ==
    IF SortRaises(Formatted(side))
    THEN [err |-> TRUE, rows |-> <<>>]
    ELSE [err |-> FALSE, rows |-> SortedRows(Truncate(Formatted(side), limit), descending)]

FormatBookSide(side, limit, descending) ==
    IF SortRaises(Formatted(side))
    THEN [err |-> TRUE, rows |-> <<>>]
    ELSE [err |-> FALSE, rows |-> Truncate(SortedRows(Formatted(side), descending), limit)]

(***************************************************************************)
(* print_orderbook: what it derives and prints.  Prices are in units of    *)
(* 0.01; mid and spread are printed with six decimals (units of 1e-6) and  *)
(* the percentage with two (units of 0.01 %).                              *)
(***************************************************************************)
MicroPerUnit == 10000    \* 1e-6 units in one price unit of 0.01 (":.6f")
PctScale == 10000        \* spread / best_bid * 100, printed ":.2f"

\* n / d rounded to the nearest integer (d # 0)
RoundDiv(n, d) ==
    IF d > 0 THEN (2 * n + d) \div (2 * d)
    ELSE (2 * (0 - n) + (0 - d)) \div (2 * (0 - d))

Value(v) == [k |-> "value", v |-> v, why |-> ""]
Unavailable(why) == [k |-> "unavailable", v |-> 0, why |-> why]
Absent == [k |-> "absent", v |-> 0, why |-> ""]

Pending ==
    [status |-> "pending", limit |-> 0, bid_rows |-> <<>>, ask_rows |-> <<>>,
     best_bid |-> None, best_ask |-> None,
     mid |-> Absent, spread |-> Absent, pct |-> Absent]

\* best_bid = _as_float(bid_rows[0][0]) if bid_rows else None
BestOf(rows) == IF rows # <<>> THEN AsFloat(rows[1][1]) ELSE None

\* a missing best price counted as 0 ("best_bid or 0")
MidMessageZero(best_bid, best_ask) ==
    Value((((IF best_bid = None THEN 0 ELSE best_bid.v)
            + (IF best_ask = None THEN 0 ELSE best_ask.v)) * MicroPerUnit) \div 2)

MidMessage(best_bid, best_ask) ==
    IF best_bid # None /\ best_ask # None
    THEN Value(((best_bid.v + best_ask.v) * MicroPerUnit) \div 2)
    ELSE IF best_bid = None /\ best_ask = None THEN Unavailable("missing both bid and ask data")
    ELSE IF best_bid = None THEN Unavailable("missing bids")
    ELSE Unavailable("missing asks")

SpreadMessage(best_bid, best_ask) ==
    IF best_bid # None /\ best_ask # None
    THEN Value((best_ask.v - best_bid.v) * MicroPerUnit)
    ELSE Unavailable("")

\* the percentage taken relative to the best ask
SpreadPctOfAsk(best_bid, best_ask) ==
    IF best_bid # None /\ best_ask # None
    THEN IF best_bid.v # 0
         THEN Value(RoundDiv((best_ask.v - best_bid.v) * PctScale, best_ask.v))
         ELSE Unavailable("percentage unavailable")
    ELSE Absent

\* spread_pct = (spread / best_bid * 100) if best_bid else None
SpreadPct(best_bid, best_ask) ==
    IF best_bid # None /\ best_ask # None
    THEN IF best_bid.v # 0
         THEN Value(RoundDiv((best_ask.v - best_bid.v) * PctScale, best_bid.v))
         ELSE Unavailable("percentage unavailable")
    ELSE Absent

PrintOrderbook(b, a, limit) ==
    LET bid == FormatBookSide(b, limit, TRUE)
        ask == FormatBookSide(a, limit, FALSE)
        best_bid == BestOf(bid.rows)
        best_ask == BestOf(ask.rows)
    IN  IF bid.err \/ ask.err
        THEN [Pending EXCEPT !.status = "raised", !.limit = limit]
        ELSE IF bid.rows = <<>> /\ ask.rows = <<>>
        THEN [Pending EXCEPT !.status = "nodata", !.limit = limit]
        ELSE [status |-> "book", limit |-> limit,
              bid_rows |-> bid.rows, ask_rows |-> ask.rows,
              best_bid |-> best_bid, best_ask |-> best_ask,
              mid |-> MidMessage(best_bid, best_ask),
              spread |-> SpreadMessage(best_bid, best_ask),
              pct |-> SpreadPct(best_bid, best_ask)]

(***************************************************************************)
(* The venue's records.  NULL is the None that record.get(key) returns for *)
(* a key the record lacks, stored as SQL NULL.                             *)
(***************************************************************************)
NULL == "NULL"

\* clobTokenIds as the Gamma API sends it: a JSON string holding a list,
\* an unparseable string, a JSON null, or no such key
TokensJson(ids) == [k |-> "json", ids |-> ids]
TokensBad == [k |-> "bad", ids |-> <<>>]
TokensNull == [k |-> "null", ids |-> <<>>]
TokensAbsent == [k |-> "absent", ids |-> <<>>]

Market(id, slug, question, closed, toks) ==
    [id |-> id, slug |-> slug, question |-> question,
     enableOrderBook |-> TRUE, active |-> TRUE, closed |-> closed, archived |-> FALSE,
     clobTokenIds |-> toks]

MA == Market("m1", "s1", "q1", FALSE, TokensJson(<<"t1", "t2">>))
MA2 == Market("m1", "s1", NULL, FALSE, TokensJson(<<"t1">>))    \* m1 again, question gone
MD == Market("m2", "s2", "q2", FALSE, TokensJson(<<"t3">>))
MB == Market("m2", "s1", "q2", FALSE, TokensJson(<<"t3">>))     \* m2 under the slug of m1
MC == Market("m2", "s2", "q2", TRUE, TokensJson(<<"t3">>))      \* m2 closed
MN == Market(NULL, NULL, "q3", FALSE, TokensBad)                \* a record without id

VenueMarkets == {MA, MA2, MD, MB, MC, MN}

\* markets the order-book loop can find in the shared list: clobTokenIds a
\* JSON null, no such key, a list with an empty token id
MX == Market("m3", "s3", "q3", FALSE, TokensNull)
MY == Market("m3", "s3", "q3", FALSE, TokensAbsent)
ME == Market("m3", "s3", "q3", FALSE, TokensJson(<<"", "t4">>))

\* shared lists: what update_from_events can have put in self.markets
SharedLists ==
    {<<MA, MD>>, <<MA2, MN>>, <<MN, MD>>, <<MY, MD>>, <<MX, MD>>, <<ME>>}

\* what the events endpoint returns, its embedded markets flattened
VenueCatalogs == {<<MA, MD>>, <<MA2, MC, MN>>}

\* a CLOB /book response; its timestamp is the venue's epoch-millisecond text
BookA ==
    [timestamp |-> 2, min_order_size |-> "5", tick_size |-> "0.01", neg_risk |-> FALSE,
     bids |-> <<DictEntry(Str(45), Str(100))>>, asks |-> <<DictEntry(Str(55), Str(80))>>]

\* a /book response with a level that lacks its price beside a valid one
BookMalformed ==
    [BookA EXCEPT !.bids = <<DictEntry(None, Str(100)), DictEntry(Str(45), Str(100))>>]

VenueBooks == {BookA, BookMalformed}

(***************************************************************************)
(* Catalog store (datastore.py).  Table markets is a multiset of rows: id  *)
(* is a TEXT PRIMARY KEY and slug is UNIQUE, and SQLite lets both be NULL  *)
(* in any number of rows.                                                  *)
(***************************************************************************)
RECURSIVE SumOver(_, _)
SumOver(tbl, S) ==
    IF S = {} THEN 0
    ELSE LET r == CHOOSE x \in S : TRUE IN tbl[r] + SumOver(tbl, S \ {r})

CountMarkets(tbl) == SumOver(tbl, DOMAIN tbl)
CountId(tbl, id) == SumOver(tbl, {r \in DOMAIN tbl : r.id = id})

NoMarkets == [r \in VenueMarkets |-> 0]

\* the rows INSERT OR REPLACE deletes before it inserts m: those holding
\* m's primary key or m's unique slug (NULL conflicts with nothing)
Conflicts(r, m) ==
    \/ m.id # NULL /\ r.id = m.id
    \/ m.slug # NULL /\ r.slug = m.slug

\* INSERT OR REPLACE without the primary key on id: every call adds a row
SaveMarketNoKey(tbl, m) == [tbl EXCEPT ![m] = @ + 1]

\* INSERT OR IGNORE: a record that conflicts with a stored row is dropped
\* and the stored row is retained
SaveMarketOrIgnore(tbl, m) ==
    [r \in DOMAIN tbl |->
        IF r = m /\ ~\E q \in DOMAIN tbl : tbl[q] > 0 /\ Conflicts(q, m)
        THEN tbl[r] + 1
        ELSE tbl[r]]

\* a row of table markets is identified with the record it was bound from:
\* its columns are the record's fields (NULL for a key the record lacks) and
\* market_data is json.dumps of the record
\* save_market_to_db, the statement having committed
SaveMarketToDb(tbl, m) ==
    [r \in DOMAIN tbl |->
        IF r = m THEN (IF Conflicts(r, m) THEN 1 ELSE tbl[r] + 1)
        ELSE IF Conflicts(r, m) THEN 0
        ELSE tbl[r]]

\* _market_exists: SELECT 1 FROM markets WHERE id = ?
MarketExists(tbl, id) == \E r \in DOMAIN tbl : tbl[r] > 0 /\ id # NULL /\ r.id = id

\* delete_market: DELETE FROM markets WHERE id = ?
DeleteMarket(tbl, id) ==
    [r \in DOMAIN tbl |-> IF id # NULL /\ r.id = id THEN 0 ELSE tbl[r]]

\* the row the save_orderbook_to_db in effect (the second definition) writes:
\* market_id, token_id, bids, asks, orderbook_data and created_at; column
\* timestamp is <<>> when NULL and <<t>> when it holds t
SnapshotRow(id, market_id, token_id, book, now) ==
    [id |-> id, market_id |-> market_id, token_id |-> token_id,
     timestamp |-> <<>>, min_order_size |-> NULL, tick_size |-> NULL, neg_risk |-> NULL,
     bids |-> book.bids, asks |-> book.asks, orderbook_data |-> book,
     created_at |-> now]

\* INSERT OR REPLACE keyed by (market_id, token_id): one row per token
SaveOrderbookOnePerToken(tbl, id, market_id, token_id, book, now) ==
    {r \in tbl : ~(r.market_id = market_id /\ r.token_id = token_id)}
        \cup {SnapshotRow(id, market_id, token_id, book, now)}

\* save_orderbook_to_db, the statement having committed: INSERT OR REPLACE
\* with a fresh AUTOINCREMENT id, the only key of the table
SaveOrderbookToDb(tbl, id, market_id, token_id, book, now) ==
    {r \in tbl : r.id # id} \cup {SnapshotRow(id, market_id, token_id, book, now)}

\* one call of save_orderbook_to_db, whole: get_db_connection raises before
\* the try is entered ("raise": the exception leaves the function), or a
\* statement inside the try fails ("error": the connection is closed
\* uncommitted and False is returned), or the row is committed ("ok")
SaveOrderbookCall(tbl, id, market_id, token_id, book, now, outcome) ==
    IF outcome = "ok"
    THEN [obk |-> SaveOrderbookToDb(tbl, id, market_id, token_id, book, now),
          nextId |-> id + 1, returned |-> "True"]
    ELSE IF outcome = "error"
    THEN [obk |-> tbl, nextId |-> id, returned |-> "False"]
    ELSE [obk |-> tbl, nextId |-> id, returned |-> "raised"]

(***************************************************************************)
(* get_stats (datastore.py): the four counts it prints.  A stored boolean  *)
(* is 1 or 0; a NULL column satisfies neither "= 1" nor "= 0".             *)
(***************************************************************************)
\* the active count taken WHERE active = 1 alone
GetStatsActiveOnly(tbl, rows) ==
    [total |-> CountMarkets(tbl),
     active |-> SumOver(tbl, {r \in DOMAIN tbl : r.active = TRUE}),
     closed |-> SumOver(tbl, {r \in DOMAIN tbl : r.closed = TRUE}),
     orderbooks |-> Cardinality(rows)]

GetStats(tbl, rows) ==
    [total |-> CountMarkets(tbl),
     active |-> SumOver(tbl, {r \in DOMAIN tbl : r.active = TRUE /\ r.closed = FALSE}),
     closed |-> SumOver(tbl, {r \in DOMAIN tbl : r.closed = TRUE}),
     orderbooks |-> Cardinality(rows)]

(***************************************************************************)
(* fetch_tokens (showorderbook.py): the newest row of each token.          *)
(***************************************************************************)
\* COALESCE(timestamp, created_at): both columns hold TEXT, the venue's
\* epoch milliseconds ("17...") or CURRENT_TIMESTAMP ("20..-..-.. ..:..:..")
SortKey(r) ==
    IF r.timestamp # <<>> THEN [t |-> "ms", v |-> r.timestamp[1]]
    ELSE [t |-> "dt", v |-> r.created_at]

\* SQLite's comparison of two such texts: byte by byte, so every millisecond
\* text is below every date text, and two texts of one kind compare by value
TextLess(a, b) ==
    \/ a.t = "ms" /\ b.t = "dt"
    \/ a.t = b.t /\ a.v < b.v

\* r comes before q under ORDER BY COALESCE(timestamp, created_at) DESC, id DESC
Before(r, q) ==
    \/ TextLess(SortKey(q), SortKey(r))
    \/ SortKey(r) = SortKey(q) /\ r.id > q.id

\* ... LIMIT 1
FirstRow(rows) == CHOOSE r \in rows : \A q \in rows \ {r} : Before(r, q)

RowsOf(tbl, market_id, token_id) ==
    {r \in tbl : r.market_id = market_id /\ r.token_id = token_id}

\* token_id is NULL (or "") when --token-id is not given
CandidateTokens(tbl, market_id, token_id) ==
    IF token_id \notin {NULL, ""} THEN {token_id}
    ELSE {r.token_id : r \in {q \in tbl : q.market_id = market_id}}

FetchTokens(tbl, market_id, token_id) ==
    {FirstRow(RowsOf(tbl, market_id, tok)) :
        tok \in {t \in CandidateTokens(tbl, market_id, token_id) :
                    RowsOf(tbl, market_id, t) # {}}}

(***************************************************************************)
(* main (showorderbook.py): the stored-book reporter run on the database.  *)
(***************************************************************************)
\* fetch_market: SELECT id, question FROM markets WHERE id = ?
FetchMarket(tbl, market_id) ==
    {r \in DOMAIN tbl : tbl[r] > 0 /\ r.id # NULL /\ r.id = market_id}

\* the books main prints: one print_orderbook per row fetch_tokens returned,
\* on the bids and asks fetch_orderbook_rows loads from that row
ShownBooks(rows, limit) ==
    {[row_id |-> r.id, token_id |-> r.token_id,
      book |-> PrintOrderbook(r.bids, r.asks, limit)] : r \in rows}

\* main: what it reports and the status it exits with.  An exception out of
\* print_orderbook ends the process with a traceback and status 1.
ShowOrderbookMain(mtbl, otbl, market_id, token_id, limit) ==
    LET tokens == FetchTokens(otbl, market_id, token_id)
        books == ShownBooks(tokens, limit)
    IN  IF FetchMarket(mtbl, market_id) = {}
        THEN [status |-> "not_found", code |-> 1, market_id |-> market_id,
              token_id |-> token_id, books |-> {}]
        ELSE IF tokens = {}
        THEN [status |-> "no_rows", code |-> 0, market_id |-> market_id,
              token_id |-> token_id, books |-> {}]
        ELSE IF \E b \in books : b.book.status = "raised"
        THEN [status |-> "raised", code |-> 1, market_id |-> market_id,
              token_id |-> token_id, books |-> books]
        ELSE [status |-> "shown", code |-> 0, market_id |-> market_id,
              token_id |-> token_id, books |-> books]

(***************************************************************************)
(* fetch_active_markets_from_events (marketdata.py)                        *)
(***************************************************************************)
EventsLimit == 10000     \* update_from_events(limit=10000) in _events_loop

IsActive(m) ==
    /\ m.enableOrderBook = TRUE
    /\ m.active = TRUE
    /\ m.closed = FALSE
    /\ m.archived = FALSE

\* the first `limit` markets of the events taken without the filter
ActiveMarketsUnfiltered(events, limit) == Truncate(events, limit)

ActiveMarkets(events, limit) == Truncate(SelectSeq(events, IsActive), limit)

\* what one call can return while the venue serves `events`: the monitored
\* markets, or [] when the request raised
FetchResults(events) == {ActiveMarkets(events, EventsLimit), <<>>}

(***************************************************************************)
(* update_from_events: the loop over the batch.  Each save_market_to_db    *)
(* commits ("ok"), fails inside its try and returns False ("error"), or    *)
(* get_db_connection raises ("raise"), which ends update_from_events in    *)
(* its except clause before the list is replaced.                          *)
(***************************************************************************)
SaveOutcomes == {"ok", "error", "raise"}

RECURSIVE SaveBatch(_, _, _)
SaveBatch(tbl, batch, outcomes) ==
    IF batch = <<>> THEN [mkt |-> tbl, raised |-> FALSE]
    ELSE IF Head(outcomes) = "raise" THEN [mkt |-> tbl, raised |-> TRUE]
    ELSE SaveBatch(IF Head(outcomes) = "ok" THEN SaveMarketToDb(tbl, Head(batch)) ELSE tbl,
                   Tail(batch), Tail(outcomes))

(***************************************************************************)
(* fetch_and_save_markets (datastore.py) and get_markets_batch             *)
(* (marketdata.py): the catalog fetched page by page.  Each request is    *)
(* answered ("ok") or gets a non-success status, on which                 *)
(* response.raise_for_status() raises.                                     *)
(***************************************************************************)
PageSize == 2            \* batch_size = 100 / limit = 100, scaled

PageStatuses == {"ok", "status"}

min(a, b) == IF a <= b THEN a ELSE b

\* get_markets_gamma / get_events (limit, offset) answered by the venue
GetMarketsGamma(catalog, limit, offset) ==
    SubSeq(catalog, offset + 1, min(Len(catalog), offset + limit))

\* the while loop with a failed request taken as the end of the pages
RECURSIVE FetchPagesLenient(_, _, _, _, _)
FetchPagesLenient(catalog, limit, offset, all_markets, statuses) ==
    IF Len(all_markets) >= limit THEN [markets |-> all_markets, raised |-> FALSE]
    ELSE LET current_batch == min(PageSize, limit - Len(all_markets))
             page == GetMarketsGamma(catalog, current_batch, offset)
         IN  IF Head(statuses) # "ok" THEN [markets |-> all_markets, raised |-> FALSE]
             ELSE IF page = <<>> THEN [markets |-> all_markets, raised |-> FALSE]
             ELSE FetchPagesLenient(catalog, limit, offset + current_batch,
                                    all_markets \o page, Tail(statuses))

\* the while loop of fetch_and_save_markets: the exception of a failed
\* request leaves the loop and the function
RECURSIVE FetchPages(_, _, _, _, _)
FetchPages(catalog, limit, offset, all_markets, statuses) ==
    IF Len(all_markets) >= limit THEN [markets |-> all_markets, raised |-> FALSE]
    ELSE LET current_batch == min(PageSize, limit - Len(all_markets))
             page == GetMarketsGamma(catalog, current_batch, offset)
         IN  IF Head(statuses) # "ok" THEN [markets |-> all_markets, raised |-> TRUE]
             ELSE IF page = <<>> THEN [markets |-> all_markets, raised |-> FALSE]
             ELSE FetchPages(catalog, limit, offset + current_batch,
                             all_markets \o page, Tail(statuses))

\* the while loop of get_markets_batch and get_markets_by_category: it also
\* ends on a page shorter than requested
RECURSIVE FetchPagesBatch(_, _, _, _, _)
FetchPagesBatch(catalog, total_markets, offset, all_markets, statuses) ==
    IF Len(all_markets) >= total_markets THEN [markets |-> all_markets, raised |-> FALSE]
    ELSE LET batch_size == min(PageSize, total_markets - Len(all_markets))
             page == GetMarketsGamma(catalog, batch_size, offset)
         IN  IF Head(statuses) # "ok" THEN [markets |-> all_markets, raised |-> TRUE]
             ELSE IF page = <<>> THEN [markets |-> all_markets, raised |-> FALSE]
             ELSE IF Len(page) < batch_size
             THEN [markets |-> all_markets \o page, raised |-> FALSE]
             ELSE FetchPagesBatch(catalog, total_markets, offset + batch_size,
                                  all_markets \o page, Tail(statuses))

\* get_markets_batch: the list it returns, nothing when it raised
GetMarketsBatch(catalog, total_markets, statuses) ==
    LET f == FetchPagesBatch(catalog, total_markets, 0, <<>>, statuses)
    IN  [returned |-> IF f.raised THEN <<>> ELSE f.markets, raised |-> f.raised]

\* fetch_and_save_markets: the table after it, every save committing
FetchAndSaveMarkets(tbl, catalog, limit, statuses) ==
    LET f == FetchPages(catalog, limit, 0, <<>>, statuses)
    IN  IF f.raised THEN [mkt |-> tbl, raised |-> TRUE]
        ELSE [mkt |-> SaveBatch(tbl, f.markets, [k \in 1..Len(f.markets) |-> "ok"]).mkt,
              raised |-> FALSE]

\* known_before = self._market_exists(market_id) if market_id else False;
\* _market_exists returns False when its query fails
CheckOutcomes == {"ok", "failed"}

KnownBefore(tbl, id, check) ==
    IF id \in {NULL, ""} \/ check = "failed" THEN FALSE ELSE MarketExists(tbl, id)

Counts(saved, new, existing) == [saved |-> saved, new |-> new, existing |-> existing]

\* the loop over the batch with a market that is already known left as it is
RECURSIVE SaveAndCountSkipKnown(_, _, _, _, _)
SaveAndCountSkipKnown(tbl, batch, outcomes, checks, n) ==
    IF batch = <<>> THEN [mkt |-> tbl, raised |-> FALSE, counts |-> n]
    ELSE LET m == Head(batch)
             known_before == KnownBefore(tbl, m.id, Head(checks))
         IN  IF known_before
             THEN SaveAndCountSkipKnown(tbl, Tail(batch), Tail(outcomes), Tail(checks),
                                        Counts(n.saved, n.new, n.existing + 1))
             ELSE IF Head(outcomes) = "raise"
             THEN [mkt |-> tbl, raised |-> TRUE, counts |-> n]
             ELSE IF Head(outcomes) = "error"
             THEN SaveAndCountSkipKnown(tbl, Tail(batch), Tail(outcomes), Tail(checks), n)
             ELSE SaveAndCountSkipKnown(SaveMarketToDb(tbl, m), Tail(batch), Tail(outcomes),
                                        Tail(checks),
                                        Counts(n.saved + 1, n.new + 1, n.existing))

\* the loop over the batch with its counters: per market the existence
\* check, then save_market_to_db, then saved_count and new_count or
\* existing_count
RECURSIVE SaveAndCount(_, _, _, _, _)
SaveAndCount(tbl, batch, outcomes, checks, n) ==
    IF batch = <<>> THEN [mkt |-> tbl, raised |-> FALSE, counts |-> n]
    ELSE LET m == Head(batch)
             known_before == KnownBefore(tbl, m.id, Head(checks))
         IN  IF Head(outcomes) = "raise"
             THEN [mkt |-> tbl, raised |-> TRUE, counts |-> n]
             ELSE IF Head(outcomes) = "error"
             THEN SaveAndCount(tbl, Tail(batch), Tail(outcomes), Tail(checks), n)
             ELSE SaveAndCount(SaveMarketToDb(tbl, m), Tail(batch), Tail(outcomes),
                               Tail(checks),
                               IF known_before
                               THEN Counts(n.saved + 1, n.new, n.existing + 1)
                               ELSE Counts(n.saved + 1, n.new + 1, n.existing))

(***************************************************************************)
(* _update_orderbooks: the tokens of the list, in the order of the loops   *)
(***************************************************************************)
\* market.get('id', 'Unknown')
OrderbookMarketId(m) == IF m.id = NULL THEN "Unknown" ELSE m.id

\* json.loads(clob_token_ids), [] when it raises; a null is passed through
\* and enumerate(None) then raises out of the loop over the markets
TokenIds(m) == IF m.clobTokenIds.k = "json" THEN m.clobTokenIds.ids ELSE <<>>
TokensRaise(m) == m.clobTokenIds.k = "null"

RECURSIVE PairsOf(_, _)
PairsOf(market_id, ids) ==
    IF ids = <<>> THEN <<>>
    ELSE (IF Head(ids) \in {NULL, ""} THEN <<>> ELSE << <<market_id, Head(ids)>> >>)
            \o PairsOf(market_id, Tail(ids))

\* the (market_id, token_id) pairs one call fetches, up to the market whose
\* token list makes the loop raise
RECURSIVE TokensOf(_)
TokensOf(list) ==
    IF list = <<>> \/ TokensRaise(Head(list)) THEN <<>>
    ELSE PairsOf(OrderbookMarketId(Head(list)), TokenIds(Head(list))) \o TokensOf(Tail(list))

\* per token: the response is saved, the save fails, or the request fails
\* (timeout, request error, status other than 200)
TokenOutcomes == {"saved", "save_failed", "fetch_failed"}

\* the loop over the tokens ended by the first request that fails
RECURSIVE SaveTokensUntilFailure(_, _, _, _, _)
SaveTokensUntilFailure(tbl, id, pairs, outcomes, now) ==
    IF pairs = <<>> \/ Head(outcomes) = "fetch_failed" THEN [obk |-> tbl, nextId |-> id]
    ELSE IF Head(outcomes) = "saved"
         THEN SaveTokensUntilFailure(
                  SaveOrderbookToDb(tbl, id, Head(pairs)[1], Head(pairs)[2], BookA, now),
                  id + 1, Tail(pairs), Tail(outcomes), now)
         ELSE SaveTokensUntilFailure(tbl, id, Tail(pairs), Tail(outcomes), now)

RECURSIVE SaveTokens(_, _, _, _, _)
SaveTokens(tbl, id, pairs, outcomes, now) ==
    IF pairs = <<>> THEN [obk |-> tbl, nextId |-> id]
    ELSE IF Head(outcomes) = "saved"
         THEN SaveTokens(SaveOrderbookToDb(tbl, id, Head(pairs)[1], Head(pairs)[2], BookA, now),
                         id + 1, Tail(pairs), Tail(outcomes), now)
         ELSE SaveTokens(tbl, id, Tail(pairs), Tail(outcomes), now)

TokenCounts(total_tokens, successful_updates) ==
    [total_tokens |-> total_tokens, successful_updates |-> successful_updates]

\* the loop over the tokens counting a token only once its request was
\* answered
RECURSIVE SaveAndCountTokensAnswered(_, _, _, _, _, _)
SaveAndCountTokensAnswered(tbl, id, pairs, outcomes, now, n) ==
    IF pairs = <<>> THEN [obk |-> tbl, nextId |-> id, counts |-> n]
    ELSE IF Head(outcomes) = "saved"
    THEN SaveAndCountTokensAnswered(
             SaveOrderbookToDb(tbl, id, Head(pairs)[1], Head(pairs)[2], BookA, now),
             id + 1, Tail(pairs), Tail(outcomes), now,
             TokenCounts(n.total_tokens + 1, n.successful_updates + 1))
    ELSE IF Head(outcomes) = "save_failed"
    THEN SaveAndCountTokensAnswered(tbl, id, Tail(pairs), Tail(outcomes), now,
                                    TokenCounts(n.total_tokens + 1, n.successful_updates))
    ELSE SaveAndCountTokensAnswered(tbl, id, Tail(pairs), Tail(outcomes), now, n)

\* the loop over the tokens with its counters: total_tokens += 1 before the
\* request, successful_updates += 1 when save_orderbook_to_db returned True
RECURSIVE SaveAndCountTokens(_, _, _, _, _, _)
SaveAndCountTokens(tbl, id, pairs, outcomes, now, n) ==
    IF pairs = <<>> THEN [obk |-> tbl, nextId |-> id, counts |-> n]
    ELSE IF Head(outcomes) = "saved"
    THEN SaveAndCountTokens(
             SaveOrderbookToDb(tbl, id, Head(pairs)[1], Head(pairs)[2], BookA, now),
             id + 1, Tail(pairs), Tail(outcomes), now,
             TokenCounts(n.total_tokens + 1, n.successful_updates + 1))
    ELSE SaveAndCountTokens(tbl, id, Tail(pairs), Tail(outcomes), now,
                            TokenCounts(n.total_tokens + 1, n.successful_updates))

(***************************************************************************)
(* MarketUpdateService (marketupdate.py)                                   *)
(***************************************************************************)
Threads == 1..MaxStarts

\* a loop thread: where it is, the list it works on, and whether a stop()
\* found it in its sleep
Thread(pc, list, halted) == [pc |-> pc, list |-> list, halted |-> halted]
NoThread == Thread("none", <<>>, FALSE)

AlreadyRunning == "Market update service is already running"
NotRunning == "Market update service is not running"
Started == "Market update service started"
Stopped == "Market update service stopped"

\* the stores a run can start from: a fresh database, or one that earlier
\* runs filled and whose snapshot row carries a venue timestamp
FreshStore ==
    [mkt |-> NoMarkets, obk |-> {}, evtab |-> {}, nextId |-> 1]
LegacyStore ==
    [mkt |-> [NoMarkets EXCEPT ![MA] = 1],
     obk |-> {[SnapshotRow(1, "m1", "t1", BookA, 1) EXCEPT !.timestamp = <<BookA.timestamp>>]},
     evtab |-> {"e1"},
     nextId |-> 2]

InitSvc ==
    /\ running = FALSE
    /\ events_thread = 0
    /\ orderbook_thread = 0
    /\ markets = <<>>
    /\ ev = [i \in Threads |-> NoThread]
    /\ ob = [i \in Threads |-> NoThread]
    /\ ctl = "idle"
    /\ svcLog = ""

InitStore(s) ==
    /\ mkt = s.mkt
    /\ obk = s.obk
    /\ evtab = s.evtab
    /\ nextId = s.nextId
    /\ clock = 1

InitNoReport ==
    /\ bids = <<>>
    /\ asks = <<>>
    /\ out = Pending

\* the service alone on a fresh database, the venue listing one market
Init ==
    /\ InitSvc
    /\ InitStore(FreshStore)
    /\ venue = <<MD>>
    /\ InitNoReport

\* the service not started, its update methods and the command line called
\* one after the other on a fresh or an older database
InitStoreOps ==
    /\ InitSvc
    /\ \E s \in {FreshStore, LegacyStore} : InitStore(s)
    /\ venue \in VenueCatalogs
    /\ InitNoReport

\* start() with the running check left out
StartUnguarded ==
    /\ ctl = "idle"
    /\ events_thread < MaxStarts
    /\ running' = TRUE
    /\ events_thread' = events_thread + 1
    /\ orderbook_thread' = orderbook_thread + 1
    /\ ev' = [ev EXCEPT ![events_thread + 1] = Thread("start", <<>>, FALSE)]
    /\ ob' = [ob EXCEPT ![orderbook_thread + 1] = Thread("start", <<>>, FALSE)]
    /\ svcLog' = Started
    /\ UNCHANGED <<markets, ctl, venue, storeVars, bookVars>>

\* start()
Start ==
    /\ ctl = "idle"
    /\ IF running
       THEN /\ svcLog' = AlreadyRunning
            /\ UNCHANGED <<running, events_thread, orderbook_thread, markets, ev, ob, ctl>>
       ELSE /\ events_thread < MaxStarts
            /\ running' = TRUE
            /\ events_thread' = events_thread + 1
            /\ orderbook_thread' = orderbook_thread + 1
            /\ ev' = [ev EXCEPT ![events_thread + 1] = Thread("start", <<>>, FALSE)]
            /\ ob' = [ob EXCEPT ![orderbook_thread + 1] = Thread("start", <<>>, FALSE)]
            /\ svcLog' = Started
            /\ UNCHANGED <<markets, ctl>>
    /\ UNCHANGED <<venue, storeVars, bookVars>>

\* stop() without its test of the running flag
StopCallUnguarded ==
    /\ ctl = "idle"
    /\ running' = FALSE
    /\ ctl' = "joining"
    /\ ev' = [i \in Threads |-> [ev[i] EXCEPT !.halted = (ev[i].pc = "sleep")]]
    /\ ob' = [i \in Threads |-> [ob[i] EXCEPT !.halted = (ob[i].pc = "sleep")]]
    /\ UNCHANGED svcLog
    /\ UNCHANGED <<events_thread, orderbook_thread, markets, venue, storeVars, bookVars>>

\* stop() up to its joins: the flag is cleared; a loop that is in its sleep
\* at that moment is marked (halted)
StopCall ==
    /\ ctl = "idle"
    /\ IF ~running
       THEN /\ svcLog' = NotRunning
            /\ UNCHANGED <<running, ev, ob, ctl>>
       ELSE /\ running' = FALSE
            /\ ctl' = "joining"
            /\ ev' = [i \in Threads |-> [ev[i] EXCEPT !.halted = (ev[i].pc = "sleep")]]
            /\ ob' = [i \in Threads |-> [ob[i] EXCEPT !.halted = (ob[i].pc = "sleep")]]
            /\ UNCHANGED svcLog
    /\ UNCHANGED <<events_thread, orderbook_thread, markets, venue, storeVars, bookVars>>

\* stop() with join() in place of join(timeout=5): it returns only when both
\* loops have left their while loop
StopReturnAfterExit ==
    /\ ctl = "joining"
    /\ \A i \in Threads : ev[i].pc \in {"none", "done"} /\ ob[i].pc \in {"none", "done"}
    /\ ctl' = "idle"
    /\ svcLog' = Stopped
    /\ UNCHANGED <<running, events_thread, orderbook_thread, markets, ev, ob, venue,
                   storeVars, bookVars>>

\* stop() returning: each join(timeout=5) ends when its thread has exited or
\* when the five seconds are over
StopReturn ==
    /\ ctl = "joining"
    /\ ctl' = "idle"
    /\ svcLog' = Stopped
    /\ UNCHANGED <<running, events_thread, orderbook_thread, markets, ev, ob, venue,
                   storeVars, bookVars>>

\* _events_loop: the loop test (on entry, or when the sleep ends) and, when it
\* passes, update_from_events up to the result of the fetch
EvIterate(i) ==
    /\ ev[i].pc \in {"start", "sleep"}
    /\ IF running
       THEN \E batch \in FetchResults(venue) :
                ev' = [ev EXCEPT ![i] = Thread("update", batch, FALSE)]
       ELSE ev' = [ev EXCEPT ![i] = Thread("done", <<>>, FALSE)]
    /\ UNCHANGED <<running, events_thread, orderbook_thread, markets, ob, ctl, svcLog,
                   venue, storeVars, bookVars>>

\* update_from_events building the shared list market by market: when a save
\* raises, the list is left holding the markets handled so far
EvUpdatePartial(i) ==
    /\ ev[i].pc = "update"
    /\ \E outcomes \in [1..Len(ev[i].list) -> SaveOutcomes] :
          LET done == SaveBatch(mkt, ev[i].list, outcomes)
              handled == {k \in 0..Len(outcomes) :
                             \A j \in 1..k : outcomes[j] # "raise"}
              last == CHOOSE k \in handled : \A j \in handled : j <= k
          IN  /\ CountMarkets(done.mkt) <= MaxMarketRows
              /\ mkt' = done.mkt
              /\ markets' = SubSeq(ev[i].list, 1, last)
    /\ ev' = [ev EXCEPT ![i] = Thread("sleep", <<>>, FALSE)]
    /\ UNCHANGED <<running, events_thread, orderbook_thread, ob, ctl, svcLog,
                   venue, obk, evtab, nextId, clock, bookVars>>

\* update_from_events and _events_loop without their except clauses: a save
\* that raises ends the thread
EvUpdateUncaught(i) ==
    /\ ev[i].pc = "update"
    /\ \E outcomes \in [1..Len(ev[i].list) -> SaveOutcomes] :
          LET done == SaveBatch(mkt, ev[i].list, outcomes)
          IN  /\ CountMarkets(done.mkt) <= MaxMarketRows
              /\ mkt' = done.mkt
              /\ markets' = IF done.raised THEN markets ELSE ev[i].list
              /\ ev' = [ev EXCEPT ![i] =
                            Thread(IF done.raised THEN "done" ELSE "sleep", <<>>, FALSE)]
    /\ UNCHANGED <<running, events_thread, orderbook_thread, ob, ctl, svcLog,
                   venue, obk, evtab, nextId, clock, bookVars>>

\* update_from_events from the fetched batch on: every market saved, then,
\* unless a save raised, the shared list replaced under the lock; and the
\* sleep of the loop begins
EvUpdate(i) ==
    /\ ev[i].pc = "update"
    /\ \E outcomes \in [1..Len(ev[i].list) -> SaveOutcomes] :
          LET done == SaveBatch(mkt, ev[i].list, outcomes)
          IN  /\ CountMarkets(done.mkt) <= MaxMarketRows
              /\ mkt' = done.mkt
              /\ markets' = IF done.raised THEN markets ELSE ev[i].list
    /\ ev' = [ev EXCEPT ![i] = Thread("sleep", <<>>, FALSE)]
    /\ UNCHANGED <<running, events_thread, orderbook_thread, ob, ctl, svcLog,
                   venue, obk, evtab, nextId, clock, bookVars>>

\* _orderbook_loop: the loop test and, when it passes, get_markets(); with an
\* empty list the loop goes straight to its sleep
ObIterate(i) ==
    /\ ob[i].pc \in {"start", "sleep"}
    /\ IF running
       THEN ob' = [ob EXCEPT ![i] =
                      IF markets # <<>> THEN Thread("update", markets, FALSE)
                      ELSE Thread("sleep", <<>>, FALSE)]
       ELSE ob' = [ob EXCEPT ![i] = Thread("done", <<>>, FALSE)]
    /\ UNCHANGED <<running, events_thread, orderbook_thread, markets, ev, ctl, svcLog,
                   venue, storeVars, bookVars>>

\* _update_orderbooks testing the running flag before each request: once
\* stop() has cleared it, nothing more is fetched
ObUpdatePreempted(i) ==
    /\ ob[i].pc = "update"
    /\ LET pairs == IF running THEN TokensOf(ob[i].list) ELSE <<>>
       IN  \E outcomes \in [1..Len(pairs) -> TokenOutcomes] :
              LET done == SaveTokens(obk, nextId, pairs, outcomes, clock)
              IN  /\ done.nextId <= MaxSnapshots + 1
                  /\ obk' = done.obk
                  /\ nextId' = done.nextId
    /\ ob' = [ob EXCEPT ![i] = Thread("sleep", <<>>, FALSE)]
    /\ UNCHANGED <<running, events_thread, orderbook_thread, markets, ev, ctl, svcLog,
                   venue, mkt, evtab, clock, bookVars>>

\* _update_orderbooks reading self.markets as it goes instead of the copy it
\* was handed
ObUpdateShared(i) ==
    /\ ob[i].pc = "update"
    /\ LET pairs == TokensOf(markets)
       IN  \E outcomes \in [1..Len(pairs) -> TokenOutcomes] :
              LET done == SaveTokens(obk, nextId, pairs, outcomes, clock)
              IN  /\ done.nextId <= MaxSnapshots + 1
                  /\ obk' = done.obk
                  /\ nextId' = done.nextId
    /\ ob' = [ob EXCEPT ![i] = Thread("sleep", <<>>, FALSE)]
    /\ UNCHANGED <<running, events_thread, orderbook_thread, markets, ev, ctl, svcLog,
                   venue, mkt, evtab, clock, bookVars>>

\* _update_orderbooks on the copy: one /book request per token and, on a
\* 200, its save_orderbook_to_db; and the sleep of the loop begins
ObUpdate(i) ==
    /\ ob[i].pc = "update"
    /\ LET pairs == TokensOf(ob[i].list)
       IN  \E outcomes \in [1..Len(pairs) -> TokenOutcomes] :
              LET done == SaveTokens(obk, nextId, pairs, outcomes, clock)
              IN  /\ done.nextId <= MaxSnapshots + 1
                  /\ obk' = done.obk
                  /\ nextId' = done.nextId
    /\ ob' = [ob EXCEPT ![i] = Thread("sleep", <<>>, FALSE)]
    /\ UNCHANGED <<running, events_thread, orderbook_thread, markets, ev, ctl, svcLog,
                   venue, mkt, evtab, clock, bookVars>>

(***************************************************************************)
(* The command line of datastore.py, run by other processes on the same    *)
(* database; the venue; the wall clock.                                    *)
(***************************************************************************)
\* fetch_and_save_markets: save_market_to_db of one fetched market
CliSaveMarket ==
    /\ \E m \in VenueMarkets :
          /\ CountMarkets(SaveMarketToDb(mkt, m)) <= MaxMarketRows
          /\ mkt' = SaveMarketToDb(mkt, m)
    /\ UNCHANGED <<svcVars, venue, obk, evtab, nextId, clock, bookVars>>

\* fetch_orderbook_for_market: one token of a stored market fetched and saved
CliFetchOrderbookFrom(books) ==
    /\ nextId <= MaxSnapshots
    /\ \E r \in {x \in VenueMarkets : mkt[x] > 0 /\ x.id # NULL /\ x.clobTokenIds.k = "json"} :
       \E j \in 1..Len(r.clobTokenIds.ids) : \E book \in books :
          obk' = SaveOrderbookToDb(obk, nextId, r.id, r.clobTokenIds.ids[j], book, clock)
    /\ nextId' = nextId + 1
    /\ UNCHANGED <<svcVars, venue, mkt, evtab, clock, bookVars>>

CliFetchOrderbook == CliFetchOrderbookFrom({BookA})

\* the same command while the venue may answer with a malformed level
CliFetchAnyOrderbook == CliFetchOrderbookFrom(VenueBooks)

\* delete --id with the snapshot rows of the market deleted along with it
CliDeleteCascade ==
    /\ \E id \in {"m1", "m2"} :
          /\ mkt' = DeleteMarket(mkt, id)
          /\ obk' = {r \in obk : r.market_id # id}
    /\ UNCHANGED <<svcVars, venue, evtab, nextId, clock, bookVars>>

\* delete --id
CliDelete ==
    /\ \E id \in {"m1", "m2"} : mkt' = DeleteMarket(mkt, id)
    /\ UNCHANGED <<svcVars, venue, obk, evtab, nextId, clock, bookVars>>

\* clear_database: DELETE FROM orderbooks, markets and events, one commit
ClearDatabase ==
    /\ obk' = {}
    /\ mkt' = NoMarkets
    /\ evtab' = {}
    /\ UNCHANGED <<svcVars, venue, nextId, clock, bookVars>>

\* the arguments the reporter is run with: --market-id, --token-id (NULL
\* when not given) and --limit
ShowMarketIds == {"m1", "m2", "m9"}
ShowTokenIds == {NULL, "t1", "t3"}

\* the reporter deleting the rows of the market it has reported on
CliShowAndPrune ==
    /\ \E market_id \in ShowMarketIds : \E token_id \in ShowTokenIds :
          /\ out' = ShowOrderbookMain(mkt, obk, market_id, token_id, MaxLimit)
          /\ obk' = {r \in obk : r.market_id # market_id}
    /\ UNCHANGED <<svcVars, venue, mkt, evtab, nextId, clock, bids, asks>>

\* showorderbook.py --market-id ... [--token-id ...] --limit ...
CliShow ==
    /\ \E market_id \in ShowMarketIds : \E token_id \in ShowTokenIds :
          out' = ShowOrderbookMain(mkt, obk, market_id, token_id, MaxLimit)
    /\ UNCHANGED <<svcVars, venue, storeVars, bids, asks>>

\* the venue's catalog changes
VenueChange ==
    /\ \E c \in VenueCatalogs \ {venue} : venue' = c
    /\ UNCHANGED <<svcVars, storeVars, bookVars>>

\* a second passes
Tick ==
    /\ clock < MaxClock
    /\ clock' = clock + 1
    /\ UNCHANGED <<svcVars, venue, mkt, obk, evtab, nextId, bookVars>>

\* update_from_events(limit), the whole call: the fetch, every save and,
\* unless a save raised, the replacement of the shared list
UpdateFromEvents ==
    /\ \E batch \in FetchResults(venue) :
       \E outcomes \in [1..Len(batch) -> SaveOutcomes] :
          LET done == SaveBatch(mkt, batch, outcomes)
          IN  /\ CountMarkets(done.mkt) <= MaxMarketRows
              /\ mkt' = done.mkt
              /\ markets' = IF done.raised THEN markets ELSE batch
    /\ UNCHANGED <<running, events_thread, orderbook_thread, ev, ob, ctl, svcLog,
                   venue, obk, evtab, nextId, clock, bookVars>>

\* _update_orderbooks(get_markets()), the whole call, while the table has
\* room for the rows of the call
UpdateOrderbooksWithin(cap) ==
    /\ markets # <<>>
    /\ LET pairs == TokensOf(markets)
       IN  \E outcomes \in [1..Len(pairs) -> TokenOutcomes] :
              LET done == SaveTokens(obk, nextId, pairs, outcomes, clock)
              IN  /\ done.nextId <= cap + 1
                  /\ obk' = done.obk
                  /\ nextId' = done.nextId
    /\ UNCHANGED <<svcVars, venue, mkt, evtab, clock, bookVars>>

UpdateOrderbooks == UpdateOrderbooksWithin(MaxSnapshots)

\* the service alone
Next ==
    \/ Start
    \/ StopCall
    \/ StopReturn
    \/ \E i \in Threads : EvIterate(i)
    \/ \E i \in Threads : EvUpdate(i)
    \/ \E i \in Threads : ObIterate(i)
    \/ \E i \in Threads : ObUpdate(i)

Spec == Init /\ [][Next]_vars

\* the same with the one progress the code guarantees whatever its threads
\* do: a join(timeout=5) is over after five seconds, so a stop() that has
\* cleared the flag goes on to its return
SpecFair == Spec /\ WF_vars(StopReturn)

\* the service started once and left running, beside a venue whose catalog
\* changes: the two loops and whoever else reads the shared list
InitLoops ==
    /\ InitSvc
    /\ InitStore(FreshStore)
    /\ venue \in VenueCatalogs
    /\ InitNoReport

NextLoops ==
    \/ Start
    \/ \E i \in Threads : EvIterate(i)
    \/ \E i \in Threads : EvUpdate(i)
    \/ \E i \in Threads : ObIterate(i)
    \/ \E i \in Threads : ObUpdate(i)
    \/ VenueChange

SpecLoops == InitLoops /\ [][NextLoops]_vars

\* the store under the update methods and the command line
NextStoreOps ==
    \/ UpdateFromEvents
    \/ UpdateOrderbooks
    \/ CliSaveMarket
    \/ CliFetchOrderbook
    \/ CliDelete
    \/ ClearDatabase
    \/ VenueChange
    \/ Tick

SpecStore == InitStoreOps /\ [][NextStoreOps]_vars

(***************************************************************************)
(* Service claims (Spec)                                                   *)
(***************************************************************************)
\* C1: start() called while the service is already running is a no-op: it
\* launches no further catalog or order-book thread and leaves running,
\* events_thread, orderbook_thread and the shared market list unchanged.
C1_StartWhileRunningNoOp ==
    [][(running /\ Start) =>
          /\ UNCHANGED <<running, events_thread, orderbook_thread, markets>>
          /\ UNCHANGED <<ev, ob>>
          /\ svcLog' = AlreadyRunning]_vars

\* C1 witness: start() has been called on the running service (its warning
\* is the last line logged) and there is still one thread of each loop.
C1_Witness ==
    /\ running
    /\ svcLog = AlreadyRunning
    /\ events_thread = 1 /\ orderbook_thread = 1
    /\ \A i \in Threads \ {1} : ev[i] = NoThread /\ ob[i] = NoThread

\* C2: a loop (catalog or order-book) that stop() found in its
\* inter-iteration sleep exits when that sleep ends and performs no further
\* fetch cycle: the step that ends the sleep of such a loop takes it out of
\* its while loop, never to a venue fetch or to a copy of the market list.
C2_StoppedInSleepExits ==
    [][\A i \in Threads :
          /\ (ev[i].halted /\ ev'[i].pc # "sleep") => ev'[i].pc = "done"
          /\ (ob[i].halted /\ ob'[i].pc # "sleep") => ob'[i].pc = "done"]_vars

\* C13: stop() always returns: having cleared the running flag it waits a
\* bounded time for each loop thread and then returns (logging that the
\* service stopped), also when a loop is still sleeping or in the middle of an
\* update; while it waits the flag stays cleared.
C13_StopReturns ==
    /\ [](ctl = "joining" => ~running)
    /\ (ctl = "joining") ~> (ctl = "idle" /\ ~running /\ svcLog = Stopped)

\* C13 witness: stop() has returned while the catalog loop is still in its
\* sleep and the order-book loop is in the middle of an update.
C13_Witness ==
    /\ ctl = "idle" /\ svcLog = Stopped /\ ~running
    /\ ev[1].pc = "sleep"
    /\ ob[1].pc = "update"

\* C22: whatever fails in an iteration of the catalog loop (the fetch, a
\* save, the opening of the database), the loop goes from that iteration to
\* its sleep, never straight to another fetch and never to its end; it
\* leaves its while loop only at a loop test that finds the running flag
\* false, and a loop test that finds it true starts the next iteration.
C22_LoopSurvivesFailures ==
    [][\A i \in Threads :
          /\ (ev[i].pc = "update" /\ ev'[i] # ev[i]) => ev'[i].pc = "sleep"
          /\ (ev[i].pc # "done" /\ ev'[i].pc = "done") =>
                (ev[i].pc \in {"start", "sleep"} /\ ~running)
          /\ (ev[i].pc \in {"start", "sleep"} /\ ev'[i].pc # ev[i].pc /\ running) =>
                ev'[i].pc = "update"]_vars

\* C22 witness: the catalog loop saved a market in one iteration, had its
\* fetch fail in a later one (the shared list is empty again), slept, and is
\* in a further iteration with a fetched batch.
C22_Witness ==
    /\ running /\ events_thread = 1
    /\ mkt[MD] > 0 /\ markets = <<>>
    /\ ev[1].pc = "update" /\ ev[1].list = <<MD>>

\* the order-book iteration of thread i ending with a row appended for every
\* token of its list
CompletesAll(i) ==
    /\ ObUpdate(i)
    /\ LET pairs == TokensOf(ob[i].list)
       IN  obk' = SaveTokens(obk, nextId, pairs, [k \in 1..Len(pairs) |-> "saved"], clock).obk

\* C28: cancellation is cooperative.  An order-book iteration that is in
\* progress when stop() clears the flag can still fetch and append all its
\* tokens, and it ends in the sleep of the loop like any other; a loop
\* leaves only at the loop test, when that test reads the flag as false,
\* and then without another iteration.
C28_CooperativeCancellation ==
    /\ [](\A i \in Threads :
            (ob[i].pc = "update" /\ ~running
             /\ nextId + Len(TokensOf(ob[i].list)) <= MaxSnapshots + 1)
               => ENABLED CompletesAll(i))
    /\ [][\A i \in Threads :
            /\ (ob[i].pc = "update" /\ ob'[i].pc # "update") => ob'[i].pc = "sleep"
            /\ (ev[i].pc = "update" /\ ev'[i].pc # "update") => ev'[i].pc = "sleep"
            /\ (ob[i].pc \in {"start", "sleep"} /\ ob'[i].pc # ob[i].pc /\ ~running)
                  => ob'[i].pc = "done"
            /\ (ev[i].pc \in {"start", "sleep"} /\ ev'[i].pc # ev[i].pc /\ ~running)
                  => ev'[i].pc = "done"]_vars

\* C28 witness: after the one start(), stop() has returned; the order-book
\* loop was in an iteration when the flag was cleared (stop() did not find
\* it in its sleep), has completed it and sleeps, and the store holds a
\* snapshot.
C28_Witness ==
    /\ ~running /\ svcLog = Stopped /\ events_thread = 1
    /\ ob[1].pc = "sleep" /\ ~ob[1].halted
    /\ obk # {}

\* the threads of a loop that are inside an iteration: in _update_orderbooks
\* with one /book request in flight or between two of them, or in
\* update_from_events
Iterating(th) == {i \in Threads : th[i].pc = "update"}

\* C29: the service never has more than one catalog fetch and one order-book
\* fetch going on: at every moment at most one thread is inside an
\* order-book iteration, issuing its requests one after another, and at most
\* one inside a catalog iteration.
C29_OneFetchPerLoop ==
    /\ Cardinality(Iterating(ob)) <= 1
    /\ Cardinality(Iterating(ev)) <= 1

\* the run state of the service: stop() is between clearing the flag and the
\* end of its joins (Stopping), the flag is set (Running), or neither
\* (Stopped).  Starting is the part of start() before the flag is set.
RunState ==
    IF ctl = "joining" THEN "Stopping"
    ELSE IF running THEN "Running"
    ELSE "Stopped"

\* a step in which a loop thread is created
LoopLaunched ==
    \/ events_thread' # events_thread
    \/ orderbook_thread' # orderbook_thread
    \/ \E i \in Threads : ev[i].pc = "none" /\ ev'[i].pc # "none"
    \/ \E i \in Threads : ob[i].pc = "none" /\ ob'[i].pc # "none"

\* C20: over any sequence of start() and stop() calls the run state moves
\* only Stopped -> (Starting ->) Running -> Stopping -> Stopped; loop threads
\* are created only in the step into Running, both of them; and stop() on a
\* stopped service leaves the flag, the threads, the shared list and the
\* store as they were.
C20_RunStateMachine ==
    [][/\ RunState' # RunState =>
             \/ RunState = "Stopped" /\ RunState' = "Running"
             \/ RunState = "Running" /\ RunState' = "Stopping"
             \/ RunState = "Stopping" /\ RunState' = "Stopped"
       /\ LoopLaunched =>
             /\ RunState = "Stopped" /\ RunState' = "Running"
             /\ events_thread' = events_thread + 1
             /\ orderbook_thread' = orderbook_thread + 1
       /\ (RunState = "Stopped" /\ RunState' = "Running") => LoopLaunched
       /\ (StopCall /\ RunState = "Stopped") =>
             UNCHANGED <<running, events_thread, orderbook_thread, markets, ev, ob,
                         ctl, storeVars>>]_vars

\* C20 witness: after a start() and a stop() that went through Running and
\* Stopping, start() has run again and a further stop() has returned; then
\* stop() was called on the stopped service.
C20_Witness ==
    /\ RunState = "Stopped"
    /\ svcLog = NotRunning
    /\ events_thread = MaxStarts

(***************************************************************************)
(* Shared-list claims (SpecLoops)                                          *)
(***************************************************************************)
\* a list is a complete batch when it is all the monitored markets of one
\* catalog of the venue, or the empty result of a failed fetch
CompleteBatch(list) ==
    \/ list = <<>>
    \/ \E c \in VenueCatalogs : list = ActiveMarkets(c, EventsLimit)

\* C17: the shared market list is replaced in one step and read as a copy: a
\* step that changes the list puts the whole batch of the finishing catalog
\* update in its place, the copy a reader takes is the list as it stands at
\* that moment, and the list and every copy are always a complete batch
\* (the previous one or the new one), never part of one.
C17_ListReplacedAtomically ==
    [][/\ markets' # markets =>
             \E i \in Threads : /\ ev[i].pc = "update" /\ ev'[i].pc = "sleep"
                                /\ markets' = ev[i].list
       /\ \A i \in Threads :
             (ob[i].pc # "update" /\ ob'[i].pc = "update") =>
                 (ob'[i].list = markets /\ markets' = markets)
       /\ CompleteBatch(markets')
       /\ \A i \in Threads : ob'[i].pc = "update" => CompleteBatch(ob'[i].list)]_vars

\* C17 witness: the order-book loop works on its copy of the previous batch
\* <<MA, MD>> while the shared list already holds the new batch <<MA2, MN>>.
C17_Witness ==
    /\ ob[1].pc = "update"
    /\ ob[1].list = <<MA, MD>>
    /\ markets = <<MA2, MN>>

(***************************************************************************)
(* Store claims (SpecStore)                                                *)
(***************************************************************************)
TwiceSaved(tbl, m) == SaveMarketToDb(SaveMarketToDb(tbl, m), m)

C14_WholesaleReplace ==
    \A m \in VenueMarkets :
        LET after == SaveMarketToDb(mkt, m)
        IN  /\ after[m] >= 1
            /\ \A r \in DOMAIN after : (after[r] > 0 /\ r.id = m.id) => r = m
            /\ \A r \in DOMAIN after :
                  (after[r] > 0 /\ r.id = m.id /\ m.question = NULL) => r.question = NULL

\* C14 witness: on the older database, where m1 was stored with its question
\* and two tokens, m1 has been saved again without question and with one
\* token: the row of m1 is that record, its question NULL.
C14_Witness ==
    /\ evtab = {"e1"}
    /\ mkt[MA2] = 1 /\ mkt[MA] = 0
    /\ CountId(mkt, "m1") = 1
    /\ \A r \in DOMAIN mkt : (mkt[r] > 0 /\ r.id = "m1") => r.question = NULL

TokenPairs == {<<"m1", "t1">>, <<"m1", "t2">>, <<"m2", "t3">>}
TokenArgs == {NULL, "t1", "t2", "t3"}

\* C4: N successful save_orderbook_to_db calls for one (market_id, token_id)
\* produce N distinct rows (no two rows share an id, and two further saves
\* add two rows to those of the token), and fetch_tokens returns, for the
\* token asked for or for each distinct token of the market, exactly one row:
\* the one with the greatest COALESCE(timestamp, created_at), the highest id
\* among equal keys.
C4_RowsAndLatest ==
    /\ \A r, q \in obk : r.id = q.id => r = q
    /\ \A p \in TokenPairs :
          LET one == SaveOrderbookToDb(obk, nextId, p[1], p[2], BookA, clock)
              two == SaveOrderbookToDb(one, nextId + 1, p[1], p[2], BookA, clock)
          IN  /\ Cardinality(RowsOf(two, p[1], p[2])) = Cardinality(RowsOf(obk, p[1], p[2])) + 2
              /\ obk \subseteq two
              /\ \E r \in FetchTokens(two, p[1], p[2]) : r.id = nextId + 1
    /\ \A market_id \in {"m1", "m2"} : \A tok \in TokenArgs :
          LET got == FetchTokens(obk, market_id, tok)
              wanted == IF tok = NULL
                        THEN {r.token_id : r \in {q \in obk : q.market_id = market_id}}
                        ELSE {t \in {tok} : RowsOf(obk, market_id, t) # {}}
          IN  /\ got \subseteq obk
              /\ {r.token_id : r \in got} = wanted
              /\ Cardinality(got) = Cardinality(wanted)
              /\ \A r \in got :
                    /\ r.market_id = market_id
                    /\ \A q \in RowsOf(obk, market_id, r.token_id) :
                          \/ q = r
                          \/ TextLess(SortKey(q), SortKey(r))
                          \/ SortKey(q) = SortKey(r) /\ q.id < r.id

\* C4 witness: two snapshots of one token saved within the same second (equal
\* keys), and fetch_tokens returns the one with the higher id.
C4_Witness ==
    \E r, q \in obk :
        /\ r.market_id = q.market_id /\ r.token_id = q.token_id
        /\ r.id < q.id
        /\ SortKey(r) = SortKey(q)
        /\ FetchTokens(obk, r.market_id, NULL) = {q}

\* C5: orderbooks rows are append-only: a catalog update, an order-book
\* update, a market upsert, a snapshot append or a market deletion leaves every
\* stored row in place, unchanged; the only step that removes rows is
\* clear_database, which empties orderbooks, markets and events together.
C5_SnapshotsAppendOnly ==
    [][/\ (obk \subseteq obk') \/ ClearDatabase
       /\ ClearDatabase => (obk' = {} /\ CountMarkets(mkt') = 0 /\ evtab' = {})]_vars

\* C5 witness: the market of a stored snapshot has been deleted and the
\* snapshot rows are all still there.
C5_Witness ==
    /\ Cardinality(obk) = MaxSnapshots
    /\ \E r \in obk : r.market_id = "m1" /\ ~MarketExists(mkt, "m1")
    /\ CountMarkets(mkt) > 0

\* three active markets and a closed one, under four ids
StatsExample ==
    <<Market("e1", "se1", "q", FALSE, TokensJson(<<"t1">>)),
      Market("e2", "se2", "q", FALSE, TokensJson(<<"t2">>)),
      Market("e3", "se3", "q", FALSE, TokensJson(<<"t3">>)),
      Market("e4", "se4", "q", TRUE, TokensJson(<<"t4">>))>>

RECURSIVE SaveAll(_, _)
SaveAll(tbl, ms) ==
    IF ms = <<>> THEN tbl ELSE SaveAll(SaveMarketToDb(tbl, Head(ms)), Tail(ms))

\* the number of rows of tbl outside the set S of row contents
RowsOutside(tbl, S) == CountMarkets(tbl) - SumOver(tbl, S \cap DOMAIN tbl)

\* C11: in every reachable store state get_stats reports total = number of
\* market rows, active = number of rows that are active and not closed,
\* closed = number of closed rows and the number of orderbooks rows (no row
\* is counted both as active and as closed); and after 3 active markets, 1
\* closed market and 2 snapshots are inserted into an empty store it reports
\* 4, 3, 1 and 2.
C11_StatsCounts ==
    /\ LET st == GetStats(mkt, obk)
       IN  /\ st.total = CountMarkets(mkt)
           /\ st.active = RowsOutside(mkt, {r \in DOMAIN mkt : r.closed \/ ~r.active})
           /\ st.closed = RowsOutside(mkt, {r \in DOMAIN mkt : ~r.closed})
           /\ st.active + st.closed <= st.total
           /\ st.orderbooks = Cardinality(obk)
    /\ LET empty == [r \in {StatsExample[i] : i \in 1..4} |-> 0]
           rows1 == SaveOrderbookToDb({}, 1, "e1", "t1", BookA, 1)
           rows2 == SaveOrderbookToDb(rows1, 2, "e1", "t1", BookA, 1)
       IN  GetStats(SaveAll(empty, StatsExample), rows2)
              = [total |-> 4, active |-> 3, closed |-> 1, orderbooks |-> 2]

\* C11 witness: the store holds an open market, a closed market (m2, still
\* flagged active by the venue) and two snapshots: get_stats reports total 2,
\* active 1, closed 1, 2 order books.
C11_Witness ==
    /\ mkt[MA] = 1 /\ mkt[MC] = 1
    /\ Cardinality(obk) = 2
    /\ GetStats(mkt, obk) = [total |-> 2, active |-> 1, closed |-> 1, orderbooks |-> 2]

\* C12: within one order-book update a failed fetch for one token (timeout,
\* request error, status other than 200) is skipped: whatever the outcomes of
\* the other tokens, every token of the list whose fetch and save succeed gets
\* its own new row, in the order of the list, and no stored row is lost.
C12_FailedFetchSkipped ==
    LET pairs == TokensOf(markets)
    IN  \A outcomes \in [1..Len(pairs) -> TokenOutcomes] :
           LET done == SaveTokens(obk, nextId, pairs, outcomes, clock)
               saved == {j \in 1..Len(pairs) : outcomes[j] = "saved"}
           IN  /\ obk \subseteq done.obk
               /\ Cardinality(done.obk \ obk) = Cardinality(saved)
               /\ done.nextId = nextId + Cardinality(saved)
               /\ \A j \in saved :
                     \E r \in done.obk \ obk :
                        /\ r.market_id = pairs[j][1]
                        /\ r.token_id = pairs[j][2]
                        /\ r.id = nextId + Cardinality({i \in saved : i < j})

\* C12 witness: the list is <<MA, MD>> and the store holds exactly the
\* snapshots of the second token of m1 and of the token of m2, saved in that
\* order within one second: the first token was not stored, the later token
\* of its market and the next market were.
C12_Witness ==
    /\ markets = <<MA, MD>>
    /\ Cardinality(obk) = 2
    /\ \E r, q \in obk :
          /\ r.market_id = "m1" /\ r.token_id = "t2"
          /\ q.market_id = "m2" /\ q.token_id = "t3"
          /\ q.id = r.id + 1
          /\ r.created_at = q.created_at

\* C15: the snapshot row save_orderbook_to_db writes for a payload carries
\* the payload's venue timestamp, tick size, minimum order size and
\* negative-risk flag in the row's own columns, beside bids, asks and the raw
\* payload.
C15_RowCarriesVenueFields ==
    \A p \in TokenPairs :
        \A r \in SaveOrderbookToDb(obk, nextId, p[1], p[2], BookA, clock) \ obk :
            /\ r.bids = BookA.bids /\ r.asks = BookA.asks /\ r.orderbook_data = BookA
            /\ r.timestamp = <<BookA.timestamp>>
            /\ r.tick_size = BookA.tick_size
            /\ r.min_order_size = BookA.min_order_size
            /\ r.neg_risk = BookA.neg_risk

\* C16: save_orderbook_to_db is all-or-nothing per call: whatever happens
\* inside it, it either adds exactly one row and returns True, or adds no
\* row, leaves the store unchanged and returns False.
C16_AllOrNothing ==
    \A p \in TokenPairs : \A outcome \in {"ok", "error", "raise"} :
        LET call == SaveOrderbookCall(obk, nextId, p[1], p[2], BookA, clock, outcome)
        IN  \/ /\ call.returned = "True"
               /\ obk \subseteq call.obk
               /\ Cardinality(call.obk \ obk) = 1
            \/ /\ call.returned = "False"
               /\ call.obk = obk

\* every save of a batch commits
AllOk(batch) == [k \in 1..Len(batch) |-> "ok"]

\* C21: one update_from_events in which the fetch and every save succeed
\* upserts every market embedded in the events the venue lists.
C21_EveryMarketUpserted ==
    LET batch == ActiveMarkets(venue, EventsLimit)
        done == SaveBatch(mkt, batch, AllOk(batch))
    IN  \A k \in 1..Len(venue) : done.mkt[venue[k]] > 0

\* the positions of a batch whose save commits: none after a save that raised
Committed(outcomes) ==
    {k \in 1..Len(outcomes) :
        outcomes[k] = "ok" /\ \A j \in 1..k : outcomes[j] # "raise"}

\* C23: in update_from_events the existence check of a market is made on
\* the table as it is before that market's upsert and only feeds the
\* counters: whatever the checks answer, and when they fail, the table after
\* the batch is the one the upserts alone produce, every committed save is
\* counted once as new or as existing, and a market is counted as existing
\* exactly when its check succeeded and found its id stored before its own
\* upsert.
C23_ClassificationOnlyCounts ==
    \A batch \in FetchResults(venue) :
    \A outcomes \in [1..Len(batch) -> SaveOutcomes] :
    \A checks \in [1..Len(batch) -> CheckOutcomes] :
        LET r == SaveAndCount(mkt, batch, outcomes, checks, Counts(0, 0, 0))
            plain == SaveBatch(mkt, batch, outcomes)
            before(k) == SaveBatch(mkt, SubSeq(batch, 1, k - 1),
                                   SubSeq(outcomes, 1, k - 1)).mkt
        IN  /\ r.mkt = plain.mkt /\ r.raised = plain.raised
            /\ r.counts.saved = Cardinality(Committed(outcomes))
            /\ r.counts.new + r.counts.existing = r.counts.saved
            /\ r.counts.existing =
                  Cardinality({k \in Committed(outcomes) :
                                  /\ checks[k] = "ok"
                                  /\ MarketExists(before(k), batch[k].id)})

\* C23 witness: an update has replaced the row of m1 by the record the venue
\* listed then; the venue now lists m1 with another record, so the next
\* batch holds a market whose check finds it and whose upsert changes its row,
\* beside one that is new.
C23_Witness ==
    /\ markets = <<MA2, MN>> /\ mkt[MA2] > 0 /\ mkt[MA] = 0
    /\ venue = <<MA, MD>>
    /\ SaveAndCount(mkt, ActiveMarkets(venue, EventsLimit),
                    <<"ok", "ok">>, <<"ok", "ok">>, Counts(0, 0, 0)).counts
          = Counts(2, 1, 1)

\* the outcomes of a batch with each failure to open the database taken as
\* a failure of that one save
OneWriteFails(outcomes) ==
    [k \in 1..Len(outcomes) |-> IF outcomes[k] = "raise" THEN "error" ELSE outcomes[k]]

\* C26: when one upsert or one snapshot append of a batch fails, also by
\* failing to open the database, only that write is lost: every other
\* market or token of the batch whose write succeeds is written, and
\* update_from_events still replaces the shared list with the batch.
C26_OnlyThatWriteFails ==
    /\ \A batch \in FetchResults(venue) :
       \A outcomes \in [1..Len(batch) -> SaveOutcomes] :
          LET done == SaveBatch(mkt, batch, outcomes)
          IN  /\ done.mkt = SaveBatch(mkt, batch, OneWriteFails(outcomes)).mkt
              /\ ~done.raised
    /\ LET pairs == TokensOf(markets)
       IN  \A outcomes \in [1..Len(pairs) -> {"saved", "save_failed"}] :
              LET new == SaveTokens(obk, nextId, pairs, outcomes, clock).obk \ obk
              IN  \A j \in 1..Len(pairs) :
                     outcomes[j] = "saved" =>
                        \E r \in new : r.market_id = pairs[j][1] /\ r.token_id = pairs[j][2]

\* the requests of one paginated fetch and the limits it is called with
MaxRequests == 3
FetchLimits == 1..4

\* C27: when a request in the middle of a paginated catalog fetch gets a
\* non-success status, the fetch ends there as on an empty page: it does
\* not raise, get_markets_batch returns the markets of the earlier pages and
\* fetch_and_save_markets saves them.
C27_FailedPageEndsPagination ==
    \A limit \in FetchLimits : \A statuses \in [1..MaxRequests -> PageStatuses] :
        LET kept == FetchPagesLenient(venue, limit, 0, <<>>, statuses).markets
            batch == GetMarketsBatch(venue, limit, statuses)
            saved == FetchAndSaveMarkets(mkt, venue, limit, statuses)
        IN  /\ ~batch.raised /\ ~saved.raised
            /\ saved.mkt = SaveBatch(mkt, kept, AllOk(kept)).mkt
            /\ \A k \in 1..Len(kept) : k <= Len(batch.returned) /\ batch.returned[k] = kept[k]

(***************************************************************************)
(* The order-book iteration on the lists the catalog loop can leave        *)
(***************************************************************************)
MaxIterationRows == 4

\* self.markets replaced by the catalog loop
ListReplaced ==
    /\ \E list \in SharedLists \ {markets} : markets' = list
    /\ UNCHANGED <<running, events_thread, orderbook_thread, ev, ob, ctl, svcLog,
                   venue, storeVars, bookVars>>

OrderbookIteration == UpdateOrderbooksWithin(MaxIterationRows)

InitIteration ==
    /\ running = FALSE
    /\ events_thread = 0
    /\ orderbook_thread = 0
    /\ markets \in SharedLists
    /\ ev = [i \in Threads |-> NoThread]
    /\ ob = [i \in Threads |-> NoThread]
    /\ ctl = "idle"
    /\ svcLog = ""
    /\ InitStore(FreshStore)
    /\ venue = <<>>
    /\ InitNoReport

NextIteration ==
    \/ OrderbookIteration
    \/ ListReplaced
    \/ Tick

SpecIteration == InitIteration /\ [][NextIteration]_vars

\* the (market id, token id) pairs of all non-empty token ids of all markets
\* of a list
RECURSIVE EveryToken(_)
EveryToken(list) ==
    IF list = <<>> THEN <<>>
    ELSE PairsOf(OrderbookMarketId(Head(list)), TokenIds(Head(list)))
            \o EveryToken(Tail(list))

\* every request of an iteration answered and every answer saved
AllSaved(pairs) == [k \in 1..Len(pairs) |-> "saved"]

\* the rows an iteration on the shared list adds when nothing fails
NewRows ==
    LET pairs == TokensOf(markets)
    IN  SaveTokens(obk, nextId, pairs, AllSaved(pairs), clock).obk \ obk

\* C24: an order-book iteration in which every fetch and every save succeeds
\* adds exactly one row for each non-empty token id of each market of the
\* shared list, holding that market's id and that token id.
C24_OneRowPerToken ==
    LET claimed == EveryToken(markets)
    IN  /\ Cardinality(NewRows) = Len(claimed)
        /\ \A k \in 1..Len(claimed) :
              Cardinality({r \in NewRows : /\ r.market_id = claimed[k][1]
                                           /\ r.token_id = claimed[k][2]}) = 1

\* a market whose clobTokenIds gives no token list
Unusable(m) == m.clobTokenIds.k \in {"absent", "null", "bad"}

\* C25: a market whose token-id list is missing, null or unparseable is
\* skipped by the iteration and every market after it in the list is still
\* processed: each of their tokens gets its row when nothing else fails.
C25_UnusableListSkipped ==
    \A k \in 1..Len(markets) :
        Unusable(markets[k]) =>
            \A j \in (k + 1)..Len(markets) :
                LET later == PairsOf(OrderbookMarketId(markets[j]), TokenIds(markets[j]))
                IN  \A i \in 1..Len(later) :
                       \E r \in NewRows : r.market_id = later[i][1] /\ r.token_id = later[i][2]

(***************************************************************************)
(* One upsert of the catalog loop racing one append of the order-book      *)
(* loop for the same market.  Each save is a connection of its own: the    *)
(* INSERT is executed inside a transaction that holds SQLite's write lock   *)
(* ("executed"), and conn.commit() publishes it and releases the lock.     *)
(* A writer finding the lock held waits for it.                            *)
(***************************************************************************)
Store(m, o, e, n) == [mkt |-> m, obk |-> o, evtab |-> e, nextId |-> n]

\* INSERT OR REPLACE INTO markets under enforced foreign keys that cascade:
\* the snapshots of the replaced rows go with them
UpsertStoreCascade(s, m) ==
    [s EXCEPT !.mkt = SaveMarketToDb(s.mkt, m),
              !.obk = {r \in s.obk :
                          ~\E x \in DOMAIN s.mkt :
                              s.mkt[x] > 0 /\ Conflicts(x, m) /\ r.market_id = x.id}]

\* save_market_to_db on the database
UpsertStore(s, m) == [s EXCEPT !.mkt = SaveMarketToDb(s.mkt, m)]

\* save_orderbook_to_db on the database
AppendStore(s, market_id, token_id, now) ==
    [s EXCEPT !.obk = SaveOrderbookToDb(s.obk, s.nextId, market_id, token_id, BookA, now),
              !.nextId = s.nextId + 1]

RaceMarkets == {MA, MA2, MD, MB, MC}

\* the market both loops are about to write, and the token of the append
RaceMarket == markets[1]
RaceToken == TokenIds(RaceMarket)[1]

InitRace ==
    /\ running = TRUE
    /\ events_thread = 1
    /\ orderbook_thread = 1
    /\ \E m \in RaceMarkets :
          /\ markets = <<m>>
          /\ venue = <<m>>
          /\ ev = [i \in Threads |-> IF i = 1 THEN Thread("update", <<m>>, FALSE) ELSE NoThread]
          /\ ob = [i \in Threads |-> IF i = 1 THEN Thread("update", <<m>>, FALSE) ELSE NoThread]
    /\ ctl = "idle"
    /\ svcLog = Started
    /\ \E s \in {FreshStore, LegacyStore} : InitStore(s)
    /\ InitNoReport

UpsertExecute ==
    /\ ev[1].pc = "update" /\ ob[1].pc # "executed"
    /\ ev' = [ev EXCEPT ![1].pc = "executed"]
    /\ UNCHANGED <<running, events_thread, orderbook_thread, markets, ob, ctl, svcLog,
                   venue, storeVars, bookVars>>

UpsertCommit ==
    /\ ev[1].pc = "executed"
    /\ LET s == UpsertStore(Store(mkt, obk, evtab, nextId), RaceMarket)
       IN  /\ mkt' = s.mkt /\ obk' = s.obk /\ evtab' = s.evtab /\ nextId' = s.nextId
    /\ ev' = [ev EXCEPT ![1] = Thread("sleep", <<>>, FALSE)]
    /\ UNCHANGED <<running, events_thread, orderbook_thread, markets, ob, ctl, svcLog,
                   venue, clock, bookVars>>

AppendExecute ==
    /\ ob[1].pc = "update" /\ ev[1].pc # "executed"
    /\ ob' = [ob EXCEPT ![1].pc = "executed"]
    /\ UNCHANGED <<running, events_thread, orderbook_thread, markets, ev, ctl, svcLog,
                   venue, storeVars, bookVars>>

AppendCommit ==
    /\ ob[1].pc = "executed"
    /\ LET s == AppendStore(Store(mkt, obk, evtab, nextId),
                            OrderbookMarketId(RaceMarket), RaceToken, clock)
       IN  /\ mkt' = s.mkt /\ obk' = s.obk /\ evtab' = s.evtab /\ nextId' = s.nextId
    /\ ob' = [ob EXCEPT ![1] = Thread("sleep", <<>>, FALSE)]
    /\ UNCHANGED <<running, events_thread, orderbook_thread, markets, ev, ctl, svcLog,
                   venue, clock, bookVars>>

NextRace ==
    \/ UpsertExecute
    \/ UpsertCommit
    \/ AppendExecute
    \/ AppendCommit
    \/ Tick

SpecRace == InitRace /\ [][NextRace]_vars

\* the database the race began on: only LegacyStore has an events row
RaceStart == IF evtab = {} THEN FreshStore ELSE LegacyStore

\* C30: an upsert of the catalog loop and an append of the order-book loop
\* for the same market id commute: however the two interleave, once both
\* have committed the database is the one both sequential orders give, and
\* neither commit touches the table of the other.
C30_UpsertAndAppendCommute ==
    /\ []((ev[1].pc = "sleep" /\ ob[1].pc = "sleep") =>
            \E now \in 1..clock :
               LET id == OrderbookMarketId(RaceMarket)
                   upsertFirst == AppendStore(UpsertStore(RaceStart, RaceMarket),
                                              id, RaceToken, now)
                   appendFirst == UpsertStore(AppendStore(RaceStart, id, RaceToken, now),
                                              RaceMarket)
               IN  /\ upsertFirst = appendFirst
                   /\ Store(mkt, obk, evtab, nextId) = upsertFirst)
    /\ [][/\ UpsertCommit => obk' = obk
          /\ AppendCommit => (mkt' = mkt /\ obk \subseteq obk')]_vars

\* C30 witness: on the older database, where m1 has a row and a snapshot,
\* both writes have committed while the clock advanced: the row of m1 is
\* the record the venue lists now and both snapshots of m1 are there.
C30_Witness ==
    /\ ev[1].pc = "sleep" /\ ob[1].pc = "sleep"
    /\ markets = <<MA2>> /\ mkt[MA2] = 1 /\ mkt[MA] = 0
    /\ Cardinality({r \in obk : r.market_id = "m1"}) = 2
    /\ clock = MaxClock

\* the database under the command line of datastore.py, and the reporter
\* run on it
InitShow ==
    /\ InitSvc
    /\ \E s \in {FreshStore, LegacyStore} : InitStore(s)
    /\ venue = <<>>
    /\ InitNoReport

NextShow ==
    \/ CliSaveMarket
    \/ CliFetchAnyOrderbook
    \/ CliDelete
    \/ ClearDatabase
    \/ CliShow

SpecShow == InitShow /\ [][NextShow]_vars

(***************************************************************************)
(* Reporter-on-the-store claims (SpecShow)                                 *)
(***************************************************************************)
\* the rows the arguments of a report select
Matching(tbl, market_id, token_id) ==
    {r \in tbl : r.market_id = market_id /\ (token_id = NULL \/ r.token_id = token_id)}

\* C18: the snapshot reporter is read-only: whatever market id and token id
\* it is run with, the markets, events and orderbooks tables are the same
\* afterwards; and when the market exists but no snapshot row matches, it
\* reports that there are no rows and exits with status 0.
C18_ReporterReadOnly ==
    [][CliShow =>
          /\ UNCHANGED <<mkt, obk, evtab, nextId>>
          /\ (FetchMarket(mkt, out'.market_id) # {}
              /\ Matching(obk, out'.market_id, out'.token_id) = {})
                 => (out'.status = "no_rows" /\ out'.code = 0 /\ out'.books = {})]_vars

\* C18 witness: the reporter has been run for a stored market without
\* snapshots, beside snapshots of another market, and has reported no rows.
C18_Witness ==
    /\ out.status = "no_rows" /\ out.code = 0
    /\ FetchMarket(mkt, out.market_id) # {}
    /\ Matching(obk, out.market_id, out.token_id) = {}
    /\ obk # {}

\* C19: the reporter tells three store states apart: market id absent
\* (not found, status 1), market present without a matching snapshot row (no
\* rows, status 0), market present with a matching row (one book rendered
\* per token, status 0).
C19_ThreeOutcomes ==
    [][CliShow =>
          LET found == FetchMarket(mkt, out'.market_id) # {}
              rows == Matching(obk, out'.market_id, out'.token_id)
          IN  /\ ~found => (out'.status = "not_found" /\ out'.code = 1)
              /\ (found /\ rows = {}) => (out'.status = "no_rows" /\ out'.code = 0)
              /\ (found /\ rows # {}) =>
                    /\ out'.status = "shown" /\ out'.code = 0
                    /\ {b.token_id : b \in out'.books} = {r.token_id : r \in rows}
                    /\ \A b \in out'.books : b.book.status = "book"]_vars

(***************************************************************************)
(* Stored payloads the reporter is run on.                                 *)
(***************************************************************************)
ShortEntry == ListEntry(<<Num(45)>>)               \* a 1-element array
NoPriceEntry == DictEntry(None, Str(100))          \* an object missing price

BidEntries ==
    {Pair(45, 100), Pair(40, 50), DictEntry(Str(45), Str(100)),
     Pair(0, 50), Pair(0 - 10, 50), ShortEntry, NoPriceEntry}

AskEntries ==
    {Pair(55, 80), Pair(60, 20), DictEntry(Str(55), Str(80)), ShortEntry, NoPriceEntry}

SeqsUpTo(S, n) == UNION {[1..k -> S] : k \in 0..n}

Limits == 0..MaxLimit

InitBook ==
    /\ InitSvc
    /\ InitStore(FreshStore)
    /\ venue = <<>>
    /\ bids \in SeqsUpTo(BidEntries, MaxLen)
    /\ asks \in SeqsUpTo(AskEntries, MaxLen)
    /\ out = Pending

\* main(): print_orderbook(bids, asks, limit) on the stored row
Report ==
    /\ out.status = "pending"
    /\ \E limit \in Limits : out' = PrintOrderbook(bids, asks, limit)
    /\ UNCHANGED <<bids, asks, svcVars, storeVars, venue>>

NextBook == Report

SpecBook == InitBook /\ [][NextBook]_vars

(***************************************************************************)
(* Reporter claims (SpecBook)                                              *)
(***************************************************************************)
AllValid(side) == \A i \in 1..Len(side) : WellFormed(side[i])
ValidOnly(side) == SelectSeq(side, WellFormed)
PriceOf(e) == Float(EntryPrice(e)).v
Prices(side) == {PriceOf(side[i]) : i \in 1..Len(side)}
MaxOf(S) == CHOOSE p \in S : \A q \in S : q <= p
MinOf(S) == CHOOSE p \in S : \A q \in S : p <= q
Smaller(a, b) == IF a < b THEN a ELSE b
Reported == out.status # "pending"
HasMalformed(side) == \E i \in 1..Len(side) : side[i] \in {ShortEntry, NoPriceEntry}

\* C6: a malformed entry (a 1-element array, an object missing price) is
\* dropped by format_book_side and the remaining valid entries of the side
\* are still normalized, sorted and returned without an error: each side comes
\* out exactly as it would from its well-formed entries alone.
C6_MalformedDropped ==
    Reported =>
        /\ ~FormatBookSide(bids, out.limit, TRUE).err
        /\ ~FormatBookSide(asks, out.limit, FALSE).err
        /\ FormatBookSide(bids, out.limit, TRUE) = FormatBookSide(ValidOnly(bids), out.limit, TRUE)
        /\ FormatBookSide(asks, out.limit, FALSE) = FormatBookSide(ValidOnly(asks), out.limit, FALSE)

\* C7: for every valid payload and every display limit >= 1 the bids come out
\* in descending and the asks in ascending price order, truncated to the limit
\* after sorting, so the best bid is >= every bid price and the best ask is <=
\* every ask price of the full stored side.
C7_SortedThenTruncated ==
    (Reported /\ out.limit >= 1 /\ AllValid(bids) /\ AllValid(asks)) =>
        LET b == FormatBookSide(bids, out.limit, TRUE)
            a == FormatBookSide(asks, out.limit, FALSE)
        IN  /\ ~b.err /\ ~a.err
            /\ out.status = "book" => (out.bid_rows = b.rows /\ out.ask_rows = a.rows)
            /\ Len(b.rows) = Smaller(out.limit, Len(bids))
            /\ Len(a.rows) = Smaller(out.limit, Len(asks))
            /\ \A i \in 1..(Len(b.rows) - 1) : b.rows[i][1].v >= b.rows[i + 1][1].v
            /\ \A i \in 1..(Len(a.rows) - 1) : a.rows[i][1].v <= a.rows[i + 1][1].v
            /\ bids # <<>> => \A q \in Prices(bids) : b.rows[1][1].v >= q
            /\ asks # <<>> => \A q \in Prices(asks) : a.rows[1][1].v <= q

\* C7 witness: a valid two-level bid side stored lowest price first, shown
\* with limit 1: the one row displayed is the higher bid.
C7_Witness ==
    /\ out.status = "book" /\ out.limit = 1
    /\ AllValid(bids) /\ AllValid(asks)
    /\ Len(bids) = 2 /\ PriceOf(bids[1]) < PriceOf(bids[2])
    /\ Len(asks) = 2 /\ PriceOf(asks[1]) > PriceOf(asks[2])
    /\ out.bid_rows[1][1].v = PriceOf(bids[2])

\* C8: when the bid side or the ask side of a snapshot is empty, mid price and
\* spread are never reported as a number (in particular never as 0): a
\* well-formed snapshot is always reported, as "No order book data" when
\* nothing is displayed on either side and otherwise with mid and spread both
\* printed as unavailable.
C8_EmptySideUnavailable ==
    (Reported /\ (bids = <<>> \/ asks = <<>>)) =>
        /\ out.mid.k # "value" /\ out.spread.k # "value" /\ out.pct.k # "value"
        /\ out.status = "book" => (out.mid.k = "unavailable" /\ out.spread.k = "unavailable")
        /\ out.status = "nodata" =>
              (FormatBookSide(bids, out.limit, TRUE).rows = <<>>
               /\ FormatBookSide(asks, out.limit, FALSE).rows = <<>>)
        /\ (AllValid(bids) /\ AllValid(asks)) => out.status \in {"book", "nodata"}
        /\ (AllValid(bids) /\ AllValid(asks) /\ out.limit >= 1 /\ (bids # <<>> \/ asks # <<>>))
              => out.status = "book"

\* C8 witness: asks present, bids empty, and the book was printed.
C8_Witness ==
    /\ out.status = "book" /\ bids = <<>> /\ asks # <<>> /\ AllValid(asks)
    /\ out.mid = Unavailable("missing bids") /\ out.spread.k = "unavailable"

\* C9: with both sides non-empty (valid entries, limit >= 1) the reporter
\* derives bestBid = highest bid price, bestAsk = lowest ask price,
\* mid = (bestBid + bestAsk) / 2, spread = bestAsk - bestBid and
\* spreadPct = spread / bestBid * 100 (to the nearest 0.01); for bids
\* [[0.45,100],[0.40,50]] and asks [[0.55,80],[0.60,20]] that is 0.45, 0.55,
\* 0.50, 0.10 and 22.22 %.
C9_DerivedValues ==
    (Reported /\ out.limit >= 1 /\ AllValid(bids) /\ AllValid(asks)
        /\ bids # <<>> /\ asks # <<>>) =>
        LET bb == MaxOf(Prices(bids))
            ba == MinOf(Prices(asks))
        IN  /\ out.status = "book"
            /\ out.best_bid = Num(bb) /\ out.best_ask = Num(ba)
            /\ out.mid.k = "value" /\ 2 * out.mid.v = (bb + ba) * MicroPerUnit
            /\ out.spread.k = "value" /\ out.spread.v = (ba - bb) * MicroPerUnit
            /\ bb > 0 =>
                  /\ out.pct.k = "value"
                  /\ 2 * (out.pct.v * bb - (ba - bb) * PctScale) <= bb
                  /\ 2 * ((ba - bb) * PctScale - out.pct.v * bb) < bb
            /\ (bids = <<Pair(45, 100), Pair(40, 50)>> /\ asks = <<Pair(55, 80), Pair(60, 20)>>) =>
                  /\ out.best_bid.v = 45 /\ out.best_ask.v = 55
                  /\ out.mid.v = 500000 /\ out.spread.v = 100000
                  /\ out.pct.v = 2222

\* C9 witness: the worked example of the spec has been reported.
C9_Witness ==
    /\ out.status = "book"
    /\ bids = <<Pair(45, 100), Pair(40, 50)>>
    /\ asks = <<Pair(55, 80), Pair(60, 20)>>
    /\ out.pct = Value(2222)

\* C10: with both sides present the spread is reported, and a spread
\* percentage is computed exactly when bestBid > 0: for a zero or negative
\* bestBid the percentage is reported as unavailable.
C10_PctOnlyForPositiveBid ==
    (out.status = "book" /\ out.best_bid # None /\ out.best_ask # None) =>
        /\ out.spread.k = "value"
        /\ out.pct.k = "value" <=> out.best_bid.v > 0
        /\ out.best_bid.v <= 0 => out.pct.k = "unavailable"

(***************************************************************************)
(* The two loops with their network reads in flight: a request is sent     *)
(* ("fetch") and the thread is blocked in requests.get until the venue     *)
(* answers, the connection fails, or the timeout of the call, if it has    *)
(* one, is over.  The order-book iteration is taken token by token.        *)
(***************************************************************************)
\* what an order-book iteration has left of its copy once the first of its
\* tokens is handled: the markets from the current one on, the current one
\* with the token ids still to come
RECURSIVE AfterFirstToken(_)
AfterFirstToken(list) ==
    IF list = <<>> \/ TokensRaise(Head(list)) THEN <<>>
    ELSE LET ids == TokenIds(Head(list))
             rest == <<[Head(list) EXCEPT !.clobTokenIds = TokensJson(Tail(ids))]>>
                        \o Tail(list)
         IN  IF ids = <<>> THEN AfterFirstToken(Tail(list))
             ELSE IF Head(ids) \in {NULL, ""} THEN AfterFirstToken(rest)
             ELSE rest

\* _events_loop: the loop test and, when it passes, update_from_events up to
\* requests.get(url, params=params) of get_events, which has no timeout
EvRequest(i) ==
    /\ ev[i].pc \in {"start", "sleep"}
    /\ ev' = [ev EXCEPT ![i] = Thread(IF running THEN "fetch" ELSE "done", <<>>, FALSE)]
    /\ UNCHANGED <<running, events_thread, orderbook_thread, markets, ob, ctl, svcLog,
                   venue, storeVars, bookVars>>

\* the venue answers the events request, or the connection fails:
\* fetch_active_markets_from_events returns its list, or []
EvResponse(i) ==
    /\ ev[i].pc = "fetch"
    /\ \E batch \in FetchResults(venue) :
          ev' = [ev EXCEPT ![i] = Thread("update", batch, FALSE)]
    /\ UNCHANGED <<running, events_thread, orderbook_thread, markets, ob, ctl, svcLog,
                   venue, storeVars, bookVars>>

\* _update_orderbooks: requests.get(url, params=params, timeout=5) sent for
\* the next token of the copy
ObRequest(i) ==
    /\ ob[i].pc = "update"
    /\ TokensOf(ob[i].list) # <<>>
    /\ ob' = [ob EXCEPT ![i].pc = "fetch"]
    /\ UNCHANGED <<running, events_thread, orderbook_thread, markets, ev, ctl, svcLog,
                   venue, storeVars, bookVars>>

\* the venue answers the /book request (200 and the save, or another
\* status), or the request fails
ObResponse(i) ==
    /\ ob[i].pc = "fetch"
    /\ \E outcome \in TokenOutcomes :
          LET done == SaveTokens(obk, nextId, <<Head(TokensOf(ob[i].list))>>, <<outcome>>,
                                 clock)
          IN  /\ done.nextId <= MaxSnapshots + 1
              /\ obk' = done.obk
              /\ nextId' = done.nextId
    /\ ob' = [ob EXCEPT ![i] = Thread("update", AfterFirstToken(ob[i].list), FALSE)]
    /\ UNCHANGED <<running, events_thread, orderbook_thread, markets, ev, ctl, svcLog,
                   venue, mkt, evtab, clock, bookVars>>

\* the five seconds of timeout=5 are over: requests.Timeout is caught and
\* logged, and the loop goes on to the next token
ObTimeout(i) ==
    /\ ob[i].pc = "fetch"
    /\ ob' = [ob EXCEPT ![i] = Thread("update", AfterFirstToken(ob[i].list), FALSE)]
    /\ UNCHANGED <<running, events_thread, orderbook_thread, markets, ev, ctl, svcLog,
                   venue, storeVars, bookVars>>

\* _update_orderbooks has no token left: it logs its counts and the sleep of
\* the loop begins
ObFinish(i) ==
    /\ ob[i].pc = "update"
    /\ TokensOf(ob[i].list) = <<>>
    /\ ob' = [ob EXCEPT ![i] = Thread("sleep", <<>>, FALSE)]
    /\ UNCHANGED <<running, events_thread, orderbook_thread, markets, ev, ctl, svcLog,
                   venue, storeVars, bookVars>>

NextFetch ==
    \/ Start
    \/ \E i \in Threads : EvRequest(i)
    \/ \E i \in Threads : EvResponse(i)
    \/ \E i \in Threads : EvUpdate(i)
    \/ \E i \in Threads : ObIterate(i)
    \/ \E i \in Threads : ObRequest(i)
    \/ \E i \in Threads : ObResponse(i)
    \/ \E i \in Threads : ObTimeout(i)
    \/ \E i \in Threads : ObFinish(i)

\* the service started once and left running.  A thread that can take a
\* step takes it: a sleep ends, a batch gets saved.  The only progress the
\* code enforces on a request is the timeout it was given: the /book request
\* is over after five seconds, the events request waits for the venue
SpecFetch ==
    /\ InitLoops
    /\ [][NextFetch]_vars
    /\ \A i \in Threads :
          /\ WF_vars(EvRequest(i))
          /\ WF_vars(EvUpdate(i))
          /\ WF_vars(ObIterate(i))
          /\ WF_vars(ObRequest(i))
          /\ WF_vars(ObTimeout(i))
          /\ WF_vars(ObFinish(i))

(***************************************************************************)
(* Network-read claims (SpecFetch)                                         *)
(***************************************************************************)
\* C31: every network read of the two loops carries a finite timeout, so no
\* iteration blocks forever on a fetch: a catalog fetch that was started
\* eventually returns a result or a failure, and so does every per-token
\* order-book fetch.
C31_EveryFetchReturns ==
    \A i \in Threads :
        /\ (ev[i].pc = "fetch") ~> (ev[i].pc # "fetch")
        /\ (ob[i].pc = "fetch") ~> (ob[i].pc # "fetch")

(***************************************************************************)
(* Referential integrity (SpecStore)                                       *)
(***************************************************************************)
\* C36: referential integrity of the snapshots: in every store state reached
\* by market upserts, snapshot appends of the order-book loop, delete_market
\* and clear_database, every row of orderbooks has a market_id that is the
\* id of a row of markets.
C36_SnapshotsReferToMarkets ==
    \A r \in obk : MarketExists(mkt, r.market_id)

(***************************************************************************)
(* The monitored list (SpecStore)                                          *)
(***************************************************************************)
\* limits update_from_events is called with
UpdateLimits == 0..3

Monitorable(m) ==
    /\ m.enableOrderBook = TRUE
    /\ m.active = TRUE
    /\ m.closed = FALSE
    /\ m.archived = FALSE

\* list holds markets of events, in the order of events
InOrderOf(list, events) ==
    \E f \in [1..Len(list) -> 1..Len(events)] :
        /\ \A k \in 1..Len(list) : list[k] = events[f[k]]
        /\ \A j, k \in 1..Len(list) : j < k => f[j] < f[k]

\* C37: after every completed update_from_events(limit) every market of the
\* shared list has enableOrderBook true, active true, closed false and
\* archived false, and the list holds at most limit markets, in the order
\* the venue returned them.
C37_ListHoldsActiveMarkets ==
    /\ [](/\ \A k \in 1..Len(markets) : Monitorable(markets[k])
          /\ Len(markets) <= EventsLimit)
    /\ [](\A limit \in UpdateLimits :
             LET list == ActiveMarkets(venue, limit)
             IN  /\ \A k \in 1..Len(list) : Monitorable(list[k])
                 /\ Len(list) <= limit
                 /\ InOrderOf(list, venue))
    /\ [][markets' # markets => InOrderOf(markets', venue)]_vars

\* C37 witness: the venue lists m1, the closed m2 and the record without id,
\* and an update has left the list holding m1 and the record without id.
C37_Witness ==
    /\ venue = <<MA2, MC, MN>>
    /\ markets = <<MA2, MN>>

(***************************************************************************)
(* The counters the loops log (SpecStore)                                  *)
(***************************************************************************)
\* C38: the counters are consistent at the end of every batch: in the
\* catalog loop saved = new + existing and saved is at most the number of
\* markets of the batch; in the order-book loop successful_updates is at most
\* total_tokens, so the failed count total_tokens - successful_updates is
\* never negative, and it is the number of tokens whose fetch or store write
\* did not succeed.
C38_CountersConsistent ==
    /\ \A batch \in FetchResults(venue) :
       \A outcomes \in [1..Len(batch) -> SaveOutcomes] :
       \A checks \in [1..Len(batch) -> CheckOutcomes] :
          LET n == SaveAndCount(mkt, batch, outcomes, checks, Counts(0, 0, 0)).counts
          IN  /\ n.saved = n.new + n.existing
              /\ n.new >= 0 /\ n.existing >= 0
              /\ n.saved <= Len(batch)
    /\ \A list \in {markets, ActiveMarkets(venue, EventsLimit)} :
          LET pairs == TokensOf(list)
          IN  \A outcomes \in [1..Len(pairs) -> TokenOutcomes] :
                 LET r == SaveAndCountTokens(obk, nextId, pairs, outcomes, clock,
                                             TokenCounts(0, 0))
                     n == r.counts
                 IN  /\ r.obk = SaveTokens(obk, nextId, pairs, outcomes, clock).obk
                     /\ n.total_tokens = Len(pairs)
                     /\ n.successful_updates <= n.total_tokens
                     /\ n.successful_updates = Cardinality(r.obk \ obk)
                     /\ n.total_tokens - n.successful_updates
                           = Cardinality({k \in 1..Len(pairs) : outcomes[k] # "saved"})

\* C38 witness: the order-book loop has written a row and the shared list
\* holds m1 and m2; an iteration in which the first token is saved, the
\* request for the second fails and the save of the third fails counts three
\* tokens and one successful update, and a batch whose second save fails
\* counts one saved market, known before.
C38_Witness ==
    /\ markets = <<MA, MD>> /\ mkt[MA] > 0
    /\ \E r \in obk : r.market_id = "m2"
    /\ SaveAndCountTokens(obk, nextId, TokensOf(markets),
                          <<"saved", "fetch_failed", "save_failed">>, clock,
                          TokenCounts(0, 0)).counts = TokenCounts(3, 1)
    /\ SaveAndCount(mkt, markets, <<"ok", "error">>, <<"ok", "ok">>,
                    Counts(0, 0, 0)).counts = Counts(1, 0, 1)

(***************************************************************************)
(* The copy of an order-book iteration (SpecLoops)                         *)
(***************************************************************************)
\* C39: an order-book iteration works on the copy of the market list it took
\* at its start: a replacement of the shared list while the iteration is in
\* progress leaves the copy as it is, the iteration fetches and saves the
\* tokens of the markets of its copy and no others, and the next iteration
\* starts from the list as replaced.
C39_IterationWorksOnItsCopy ==
    [][\A i \in Threads :
          /\ (ob[i].pc = "update" /\ ob'[i].pc = "update") => ob'[i].list = ob[i].list
          /\ (ob[i].pc = "update" /\ ob'[i].pc # "update") =>
                LET pairs == TokensOf(ob[i].list)
                IN  \E outcomes \in [1..Len(pairs) -> TokenOutcomes] :
                       LET done == SaveTokens(obk, nextId, pairs, outcomes, clock)
                       IN  obk' = done.obk /\ nextId' = done.nextId
          /\ (ob[i].pc # "update" /\ ob'[i].pc = "update") => ob'[i].list = markets']_vars

\* C39 witness: the order-book loop took its copy <<MA2, MN>> and has written
\* nothing yet; the catalog loop has since stored the batch <<MA, MD>> and
\* put it in place of the shared list, and sleeps.
C39_Witness ==
    /\ ob[1].pc = "update" /\ ob[1].list = <<MA2, MN>>
    /\ obk = {}
    /\ ev[1].pc = "sleep"
    /\ markets = <<MA, MD>> /\ mkt[MA] > 0 /\ mkt[MD] > 0

(***************************************************************************)
(* Further service claims (Spec)                                           *)
(***************************************************************************)
\* the catalog fetch of thread i failed: the venue lists a monitored market
\* and the batch in hand is []
FetchFailed(i) ==
    /\ ev[i].pc = "update"
    /\ ev[i].list = <<>>
    /\ ActiveMarkets(venue, EventsLimit) # <<>>

\* C32: when the catalog fetch of an iteration fails, the shared market list
\* keeps the value of the last successful batch, so the order-book loop goes
\* on refreshing the markets known before.
C32_FailedFetchKeepsList ==
    [][\A i \in Threads : (FetchFailed(i) /\ ev'[i].pc = "sleep") => markets' = markets]_vars

(***************************************************************************)
(* Further store claims (SpecStore)                                        *)
(***************************************************************************)
\* C33: upserting a market with id X changes only the row with id X: in
\* every store state and for every record that has an id (also one whose slug
\* is the slug of a stored market with another id), the rows with another id
\* are still there, unchanged, after save_market_to_db.
C33_UpsertTouchesOnlyItsRow ==
    \A m \in VenueMarkets :
        m.id # NULL =>
            \A r \in VenueMarkets :
                r.id # m.id => SaveMarketToDb(mkt, m)[r] = mkt[r]

\* C35: once stop() has returned, the service makes no further store write
\* and no further replacement of the shared market list until start() is
\* called again.
C35_QuietAfterStop ==
    [][(ctl = "idle" /\ ~running) =>
           (mkt' = mkt /\ obk' = obk /\ markets' = markets)]_vars

(***************************************************************************)
(* start() called from several threads of the embedding program.  The      *)
(* method takes no lock: the test of self.running (line 70) and the        *)
(* assignment self.running = True (line 77) are separate steps, with       *)
(* _log_existing_market_count and its database reads between them.  Here   *)
(* ctl holds the position of each caller.                                  *)
(***************************************************************************)
MaxCallers == 2
Callers == 1..MaxCallers

\* start() up to the assignment: the test of the flag and the market count
StartCheck(c) ==
    /\ ctl[c] = "idle"
    /\ IF running
       THEN /\ svcLog' = AlreadyRunning
            /\ UNCHANGED ctl
       ELSE /\ ctl' = [ctl EXCEPT ![c] = "checked"]
            /\ UNCHANGED svcLog
    /\ UNCHANGED <<running, events_thread, orderbook_thread, markets, ev, ob, venue,
                   storeVars, bookVars>>

\* start() from the assignment on: the flag set, the two threads created and
\* started, their handles stored over the handles held before
StartLaunch(c) ==
    /\ ctl[c] = "checked"
    /\ events_thread < MaxStarts
    /\ running' = TRUE
    /\ events_thread' = events_thread + 1
    /\ orderbook_thread' = orderbook_thread + 1
    /\ ev' = [ev EXCEPT ![events_thread + 1] = Thread("start", <<>>, FALSE)]
    /\ ob' = [ob EXCEPT ![orderbook_thread + 1] = Thread("start", <<>>, FALSE)]
    /\ svcLog' = Started
    /\ ctl' = [ctl EXCEPT ![c] = "idle"]
    /\ UNCHANGED <<markets, venue, storeVars, bookVars>>

InitStarts ==
    /\ running = FALSE
    /\ events_thread = 0
    /\ orderbook_thread = 0
    /\ markets = <<>>
    /\ ev = [i \in Threads |-> NoThread]
    /\ ob = [i \in Threads |-> NoThread]
    /\ ctl = [c \in Callers |-> "idle"]
    /\ svcLog = ""
    /\ InitStore(FreshStore)
    /\ venue = <<MD>>
    /\ InitNoReport

NextStarts ==
    \/ \E c \in Callers : StartCheck(c)
    \/ \E c \in Callers : StartLaunch(c)
    \/ \E i \in Threads : EvIterate(i)
    \/ \E i \in Threads : EvUpdate(i)
    \/ \E i \in Threads : ObIterate(i)
    \/ \E i \in Threads : ObUpdate(i)

SpecStarts == InitStarts /\ [][NextStarts]_vars

(***************************************************************************)
(* Concurrent-start claims (SpecStarts)                                    *)
(***************************************************************************)
\* the threads of a loop that are inside their while loop
Looping(th) == {i \in Threads : th[i].pc \in {"start", "update", "sleep"}}

\* C34: whatever the sequence and interleaving of start() and stop() calls
\* (two concurrent start() calls among them), at most one catalog-loop thread
\* and at most one order-book-loop thread of the service run their loop
\* while the service is running.
C34_OneThreadPerLoop ==
    running => /\ Cardinality(Looping(ev)) <= 1
               /\ Cardinality(Looping(ob)) <= 1

(***************************************************************************)
(* display_orderbook (showorderbook.py at the top of the repository): the  *)
(* live reporter, run on the payload the venue has just returned.  It      *)
(* calls float() on the price and the size of every entry without a try,   *)
(* so an entry that is not a numeric pair or object makes it raise (None   *)
(* standing for a JSON null).                                              *)
(***************************************************************************)
DisplayRaises(side) == \E k \in 1..Len(side) : ~WellFormed(side[k])

\* sorted(asks, key=float(price)) / sorted(bids, key=float(price), reverse=True)
DisplaySorted(side, descending) == SortedRows(Formatted(side), descending)

\* spread_pct = (spread / mid_price) * 100 if mid_price > 0 else 0, ":.2f"
DisplaySpreadPct(best_bid, best_ask) ==
    IF best_bid.v + best_ask.v > 0
    THEN Value(RoundDiv(2 * (best_ask.v - best_bid.v) * PctScale, best_bid.v + best_ask.v))
    ELSE Value(0)

DisplayOrderbook(b, a) ==
    IF DisplayRaises(b) \/ DisplayRaises(a)
    THEN [status |-> "raised", best_bid |-> None, best_ask |-> None,
          mid |-> Absent, spread |-> Absent, pct |-> Absent]
    ELSE LET sorted_asks == DisplaySorted(a, FALSE)
             sorted_bids == DisplaySorted(b, TRUE)
             best_ask == IF sorted_asks # <<>> THEN sorted_asks[1][1] ELSE None
             best_bid == IF sorted_bids # <<>> THEN sorted_bids[1][1] ELSE None
             both == best_bid # None /\ best_ask # None
         IN  [status |-> "book", best_bid |-> best_bid, best_ask |-> best_ask,
              mid |-> IF both THEN Value(((best_bid.v + best_ask.v) * MicroPerUnit) \div 2)
                      ELSE Absent,
              spread |-> IF both THEN Value((best_ask.v - best_bid.v) * MicroPerUnit)
                         ELSE Absent,
              pct |-> IF both THEN DisplaySpreadPct(best_bid, best_ask) ELSE Absent]

(***************************************************************************)
(* The two reporters side by side (SpecBook)                               *)
(***************************************************************************)
\* C40: the two order-book reporters agree: for every payload whose entries
\* are all well-formed numeric pairs or objects and whose sides are both
\* non-empty, the stored-book reporter (print_orderbook, limit >= 1) and the
\* live reporter (display_orderbook) derive the same best bid, best ask, mid
\* price, spread and spread percentage.
C40_ReportersAgree ==
    (Reported /\ out.limit >= 1 /\ AllValid(bids) /\ AllValid(asks)
        /\ bids # <<>> /\ asks # <<>>) =>
        LET live == DisplayOrderbook(bids, asks)
        IN  /\ live.status = "book" /\ out.status = "book"
            /\ live.best_bid = out.best_bid
            /\ live.best_ask = out.best_ask
            /\ live.mid = out.mid
            /\ live.spread = out.spread
            /\ live.pct = out.pct

====
